---- MODULE Spec2Model ----
(***************************************************************************)
(* A model of the ContextLingo core: the page-scanning / replacement       *)
(* engine of the content script (TranslationScheduler, scan,               *)
(* applySentenceScopedReplacements), the batch data generator              *)
(* (runGeneration) and the configuration codec (generateConfigYaml /       *)
(* parseConfigYaml).                                                       *)
(*                                                                         *)
(* The content script exists in two copies in the repository,              *)
(* src/entrypoints/content/index.tsx and src/unnamed/part_001.  They agree *)
(* on everything modelled here except TranslationScheduler.flush; the      *)
(* variable build says which copy runs.                                    *)
(***************************************************************************)
EXTENDS Integers, Sequences, FiniteSets, TLC

VARIABLES
    \* ---- density filter (applySentenceScopedReplacements, step 2)
    allPotentialReplacements,   \* candidates in accumulation order
    currentStyles,              \* category -> style config (partial)
    finalFilteredReplacements,  \* output of the density stage
    nonOverlappingReplacements, \* output of the overlap removal
    densPc,                     \* "input" | "filtered" | "resolved"
    \* ---- content script: scan, TranslationScheduler, storage watchers
    build,            \* which copy of the content script runs
    dom,              \* the elements under the scan root, in document order
    nextId,           \* the next element the page will insert
    buffer,           \* TranslationScheduler.buffer (the blocks of its items)
    isProcessing,     \* TranslationScheduler.isProcessing
    cycles,           \* the activations of flush() that have not returned
    currentEntries,   \* the vocabulary list (its version)
    engineEnabled,    \* currentEngines.find(e => e.isEnabled) is defined
    timerPending,     \* setTimeout(scan, 1500) has not fired yet
    observerPending,  \* the MutationObserver holds undelivered records
    noEngineTaken,    \* history: blocks dequeued by a flush that found no engine
    directAdds,       \* history: number of calls of add made by a caller other than scan
    \* ---- batch data generator (runGeneration)
    mappings,         \* MappingConfig[]: path, field, weight, isBase
    lists,            \* ListConfig[]: the marked list paths
    data,             \* the JSON document fetched for the word
    previewResult,    \* the generated entries
    genPc,            \* "ready" | "done" ("idle": the generator is not open)
    \* ---- configuration codec (generateConfigYaml / parseConfigYaml)
    fullConfig,       \* the configuration tree handed to the export
    yaml,             \* the exported text
    parsed,           \* the tree the import made of the text
    codecPc,          \* "config" | "exported" | "parsed" ("idle": not in use)
    \* ---- path normalization (normalizePath)
    rawPath,          \* a path string, as the characters of it
    normOnce,         \* normalizePath(rawPath)
    normTwice,        \* normalizePath(normalizePath(rawPath))
    pathPc,           \* "raw" | "once" | "twice" ("idle": not in use)
    \* ---- batch data generator: the loop of runGeneration over the words
    importedWords,    \* the imported word list
    words,            \* the words of this run (all, or the first for a preview)
    wordIdx,          \* the place in words of the word being processed
    allFinalResults,  \* the entries of the words completed in this run
    isGenerating,     \* the isGenerating flag
    toasts,           \* history: the types of the notices shown
    fetched,          \* history: the documents received, one per completed word
    fetchLog,         \* history: fetches started and words completed, in order
    \* ---- configuration import: handleImportFile and handleConfigImport
    importText,       \* the text of the file chosen for import
    importParsed,     \* the object the file parsed to
    appConfig,        \* the configuration state of the app
    storedConfig,     \* the configuration values in storage
    importToasts,     \* history: the types of the notices shown by the import
    onImportCalls,    \* history: the number of calls of onImport
    importPc,         \* the position in the import
    \* ---- the scans of runGeneration applied below the root
    startDepth,       \* the depth of the value the scans are applied to (0: the document)
    \* ---- DOM splice (applySentenceScopedReplacements, step 3)
    textNodes,        \* the values of the block's text nodes when nodeMap is built
    keptReplacements, \* the candidates kept by the overlap removal, by start
    blockDom,         \* the text nodes, units and spaces of the block, in document order
    splicePc,         \* "kept" | "spliced" ("idle": not in use)
    \* ---- rule editor: rule sets per URL template, undo history
    apiUrl,           \* the active URL template
    history,          \* HistoryStep[]: the undo steps
    historyIndex,     \* the place of the current step in history, from 0 (-1: none)
    ruleStore,        \* the blob under RULES_STORAGE_KEY: URL template -> rule set
    saveTimer,        \* the pending setTimeout of the save effect, with the values it closed over
    loads,            \* the calls of loadRulesForApi whose getItem has not returned
    saves,            \* the save callbacks that have started and not finished
    lastEdited,       \* history: URL template -> the rules the user last left while it was active
    ruleSteps,        \* history: number of rule changes and URL changes the user has made
    \* ---- content script UI: batch quick-add (handleCaptureAndAdd)
    storedEntries,    \* entriesStorage: entry id -> category
    uiEntries,        \* the entries state of the UI (setEntries)
    batchIds,         \* the ids handed to onBatchAddToLearning
    captures          \* the calls of handleCaptureAndAdd that have not returned, by id

densVars == <<allPotentialReplacements, currentStyles, finalFilteredReplacements,
              nonOverlappingReplacements, densPc>>

scanVars == <<build, dom, nextId, buffer, isProcessing, cycles, currentEntries,
              engineEnabled, timerPending, observerPending, noEngineTaken, directAdds>>

genVars == <<mappings, lists, data, previewResult, genPc>>

codecVars == <<fullConfig, yaml, parsed, codecPc>>

pathVars == <<rawPath, normOnce, normTwice, pathPc>>

batchVars == <<importedWords, words, wordIdx, allFinalResults, isGenerating, toasts, fetched, fetchLog>>

importVars == <<importText, importParsed, appConfig, storedConfig, importToasts, onImportCalls, importPc>>

deepVars == <<startDepth>>

spliceVars == <<textNodes, keptReplacements, blockDom, splicePc>>

rulesVars == <<apiUrl, history, historyIndex, ruleStore, saveTimer, loads, saves, lastEdited, ruleSteps>>

captureVars == <<storedEntries, uiEntries, batchIds, captures>>

vars == <<densVars, scanVars, genVars, codecVars, pathVars, batchVars, importVars, deepVars, spliceVars, rulesVars, captureVars>>

\* the batch generator page is not open
GenIdle ==
    /\ mappings = <<>>
    /\ lists = <<>>
    /\ data = <<>>
    /\ previewResult = <<>>
    /\ genPc = "idle"

\* no configuration is being exported or imported
CodecIdle ==
    /\ fullConfig = <<>>
    /\ yaml = <<>>
    /\ parsed = <<>>
    /\ codecPc = "idle"

\* no path is being normalized
PathIdle ==
    /\ rawPath = <<>>
    /\ normOnce = <<>>
    /\ normTwice = <<>>
    /\ pathPc = "idle"

\* no batch generation is running
BatchIdle ==
    /\ importedWords = <<>>
    /\ words = <<>>
    /\ wordIdx = 0
    /\ allFinalResults = <<>>
    /\ isGenerating = FALSE
    /\ toasts = <<>>
    /\ fetched = <<>>
    /\ fetchLog = <<>>

\* the settings page is not open
ImportIdle ==
    /\ importText = <<>>
    /\ importParsed = <<>>
    /\ appConfig = <<>>
    /\ storedConfig = <<>>
    /\ importToasts = <<>>
    /\ onImportCalls = 0
    /\ importPc = "idle"

\* the scans are applied to the document itself
DeepIdle ==
    /\ startDepth = 0

\* no block is being spliced
SpliceIdle ==
    /\ textNodes = <<>>
    /\ keptReplacements = <<>>
    /\ blockDom = <<>>
    /\ splicePc = "idle"

\* the rule editor is not open
RulesIdle ==
    /\ apiUrl = ""
    /\ history = <<>>
    /\ historyIndex = -1
    /\ ruleStore = <<>>
    /\ saveTimer = <<>>
    /\ loads = {}
    /\ saves = {}
    /\ lastEdited = <<>>
    /\ ruleSteps = 0

\* no vocabulary is loaded in the page UI
CaptureIdle ==
    /\ storedEntries = <<>>
    /\ uiEntries = <<>>
    /\ batchIds = {}
    /\ captures = <<>>

(***************************************************************************)
(* Generic helpers                                                         *)
(***************************************************************************)
Min(a, b) == IF a <= b THEN a ELSE b

Range(s) == {s[i] : i \in DOMAIN s}

\* s.slice(0, n) for an integer n >= 0
SliceTo(s, n) == SubSeq(s, 1, Min(n, Len(s)))

RECURSIVE SeqsUpTo(_, _)
\* all sequences over S of length <= n
SeqsUpTo(S, n) ==
    IF n = 0 THEN {<<>>}
    ELSE LET shorter == SeqsUpTo(S, n - 1)
         IN  shorter \cup {Append(s, x) : s \in {t \in shorter : Len(t) = n - 1}, x \in S}

(***************************************************************************)
(* IEEE-754 double arithmetic, as far as                                   *)
(*   Math.ceil(matches.length * (styleConfig.densityValue / 100))          *)
(* needs it.  A positive double is [m, e]: m a sequence of MantissaBits    *)
(* bits, most significant (a 1) first, and the value is m * 2^e.           *)
(***************************************************************************)
MantissaBits == 53

RECURSIVE NatBits(_)
\* binary digits of a natural number, most significant first (<<>> for 0)
NatBits(n) == IF n = 0 THEN <<>> ELSE Append(NatBits(n \div 2), n % 2)

RECURSIVE BitsNat(_)
\* the number a (short) bit sequence denotes
BitsNat(bs) ==
    IF bs = <<>> THEN 0 ELSE 2 * BitsNat(SubSeq(bs, 1, Len(bs) - 1)) + bs[Len(bs)]

RECURSIVE BitsInc(_)
\* bs + 1; the result is one bit longer when bs is all ones
BitsInc(bs) ==
    IF bs = <<>> THEN <<1>>
    ELSE IF bs[Len(bs)] = 0 THEN Append(SubSeq(bs, 1, Len(bs) - 1), 1)
    ELSE Append(BitsInc(SubSeq(bs, 1, Len(bs) - 1)), 0)

\* round-to-nearest-even of m * 2^e once the discarded tail is known to be
\* above half (up), exactly half (tie) or below; renormalises a carry-out.
RoundNearestEven(m, e, up, tie) ==
    IF up \/ (tie /\ m[Len(m)] = 1)
    THEN LET inc == BitsInc(m)
         IN  IF Len(inc) > Len(m)
             THEN [m |-> SubSeq(inc, 1, Len(m)), e |-> e + 1]
             ELSE [m |-> inc, e |-> e]
    ELSE [m |-> m, e |-> e]

RECURSIVE DivBits(_, _, _, _)
\* long division: acc holds the significant quotient bits found so far, k the
\* number of fraction bits consumed, r the running remainder (0 <= r < b)
DivBits(r, b, acc, k) ==
    IF Len(acc) = MantissaBits
    THEN RoundNearestEven(acc, 0 - k, 2 * r > b, 2 * r = b)
    ELSE LET bit == IF 2 * r >= b THEN 1 ELSE 0
             nacc == IF acc = <<>> /\ bit = 0 THEN <<>> ELSE Append(acc, bit)
         IN  DivBits(2 * r - bit * b, b, nacc, k + 1)

\* the double nearest to a / b, for naturals a > 0 and b > 0 with a \div b
\* shorter than the mantissa
DoubleDiv(a, b) == DivBits(a % b, b, NatBits(a \div b), 0)

RECURSIVE MulSmallRev(_, _, _, _)
\* n * (bits of m from position i down to 1), carry c: the exact product, least
\* significant bit first
MulSmallRev(m, i, n, c) ==
    IF i = 0 THEN (IF c = 0 THEN <<>> ELSE <<c % 2>> \o MulSmallRev(m, 0, n, c \div 2))
    ELSE LET acc == n * m[i] + c
         IN  <<acc % 2>> \o MulSmallRev(m, i - 1, n, acc \div 2)

Reverse(s) == [i \in 1..Len(s) |-> s[Len(s) + 1 - i]]

\* the double nearest to n * d, for a natural n > 0 and a positive double d
DoubleMulNat(n, d) ==
    LET prod == Reverse(MulSmallRev(d.m, Len(d.m), n, 0))
        drop == Len(prod) - MantissaBits
        kept == SubSeq(prod, 1, MantissaBits)
        tail == SubSeq(prod, MantissaBits + 1, Len(prod))
        rest == {tail[i] : i \in 2..Len(tail)}
    IN  IF drop = 0 THEN [m |-> prod, e |-> d.e]
        ELSE RoundNearestEven(kept, d.e + drop,
                              tail[1] = 1 /\ 1 \in rest,
                              tail[1] = 1 /\ ~(1 \in rest))

\* Math.ceil of a positive double below 2^MantissaBits
DoubleCeil(d) ==
    LET f == 0 - d.e
    IN  IF f <= 0 THEN BitsNat(d.m)   \* an integer already (never large here)
        ELSE IF f >= Len(d.m) THEN 1
        ELSE LET ip == BitsNat(SubSeq(d.m, 1, Len(d.m) - f))
                 fr == {d.m[i] : i \in (Len(d.m) - f + 1)..Len(d.m)}
             IN  IF 1 \in fr THEN ip + 1 ELSE ip

\* Math.ceil(total * (percent / 100)) in double arithmetic
PercentLimitFloat(total, percent) ==
    IF total = 0 \/ percent = 0 THEN 0
    ELSE DoubleCeil(DoubleMulNat(total, DoubleDiv(percent, 100)))

\* Math.ceil(total * (percent / 100)) as the content script computes it
PercentLimit(total, percent) == PercentLimitFloat(total, percent)

(***************************************************************************)
(* Density filter: applySentenceScopedReplacements, step 2                 *)
(***************************************************************************)
\* Object.values(WordCategory), in declaration order
WordCategory == <<"WantToLearnWord", "LearningWord", "KnownWord">>

\* the vocabulary entries candidates refer to: id, category, length of the
\* matched word
Vocabulary ==
    { [id |-> "w1", category |-> "WantToLearnWord", len |-> 1],
      [id |-> "w2", category |-> "LearningWord", len |-> 2] }

RECURSIVE SortByStart(_)
\* matches.sort((a, b) => a.start - b.start): Array.prototype.sort is stable
SortByStart(s) ==
    IF s = <<>> THEN <<>>
    ELSE LET front == SortByStart(SubSeq(s, 1, Len(s) - 1))
             x == s[Len(s)]
             n == Cardinality({i \in DOMAIN front : front[i].start <= x.start})
         IN  SubSeq(front, 1, n) \o <<x>> \o SubSeq(front, n + 1, Len(front))

\* a density stage that forgets to sort
DensityOrderUnsorted(matches) == matches

\* the order in which one category's matches are cut by slice(0, limit)
DensityOrder(matches) == SortByStart(matches)

\* categorizedReplacements[cat]: the candidates of one category, in
\* accumulation order
Categorized(all, cat) == SelectSeq(all, LAMBDA r : r.entry.category = cat)

\* let limit = matches.length; if (styleConfig) { count / percent }
DensityLimit(styles, cat, total) ==
    IF cat \notin DOMAIN styles THEN total
    ELSE IF styles[cat].densityMode = "count" THEN styles[cat].densityValue
    ELSE IF styles[cat].densityMode = "percent"
         THEN PercentLimit(total, styles[cat].densityValue)
    ELSE total

RECURSIVE DensityFilterFrom(_, _, _)
\* for (const cat of Object.values(WordCategory)) { ... push(...slice) }
DensityFilterFrom(all, styles, i) ==
    IF i > Len(WordCategory) THEN <<>>
    ELSE LET matches == Categorized(all, WordCategory[i])
             kept == IF matches = <<>> THEN <<>>
                     ELSE SliceTo(DensityOrder(matches),
                                  DensityLimit(styles, WordCategory[i], Len(matches)))
         IN  kept \o DensityFilterFrom(all, styles, i + 1)

DensityFilter(all, styles) == DensityFilterFrom(all, styles, 1)

\* an overlap test that lets every candidate through
AdmitsAlways(r, occupiedEnd) == TRUE

\* if (r.start >= occupiedEnd)
Admits(r, occupiedEnd) == r.start >= occupiedEnd

RECURSIVE RemoveOverlapsFrom(_, _, _)
\* for (const r of finalFilteredReplacements) { if (...) { push(r); occupiedEnd = r.end } }
RemoveOverlapsFrom(sorted, i, occupiedEnd) ==
    IF i > Len(sorted) THEN <<>>
    ELSE IF Admits(sorted[i], occupiedEnd)
         THEN <<sorted[i]>> \o RemoveOverlapsFrom(sorted, i + 1, sorted[i].end)
         ELSE RemoveOverlapsFrom(sorted, i + 1, occupiedEnd)

\* let occupiedEnd = -1; the loop over the sorted candidates
RemoveOverlaps(sorted) == RemoveOverlapsFrom(sorted, 1, 0 - 1)

(***************************************************************************)
(* The DOM under the scan root.  dom lists the elements in document order; *)
(* an element is [id, parent, cls, scanned]: parent is the id of its       *)
(* parent element (0: the scan root), cls is "page" for a text container   *)
(* of the page and "bilingual" for a div.context-lingo-bilingual-block,    *)
(* scanned is the value of data-context-lingo-scanned ("" when absent).    *)
(* Page elements have ids 1, 2, ...; the translation block inserted after  *)
(* block b has id -b.                                                      *)
(***************************************************************************)
MaxPage == 2          \* elements the page inserts
BatchSize == 10       \* this.buffer.splice(0, 10)

BilId(b) == IF b > 0 THEN 0 - b ELSE b - MaxPage

ElemAt(d, id) == CHOOSE r \in Range(d) : r.id = id

Present(d, id) == \E r \in Range(d) : r.id = id

RECURSIVE Ancestors(_, _)
Ancestors(d, id) ==
    LET p == ElemAt(d, id).parent
    IN  IF p = 0 THEN {} ELSE {p} \cup Ancestors(d, p)

\* n.closest('.context-lingo-bilingual-block') for an element that is not
\* such a block itself
InsideBilingual(d, id) == \E a \in Ancestors(d, id) : ElemAt(d, a).cls = "bilingual"

\* Array.from(n.children).some(c => textContainers.includes(c.tagName))
HasBlockChildren(d, id) == \E r \in Range(d) : r.parent = id

\* the internal-UI test of acceptNode (step 2) without the marker test
RejectsOwnOutputNoMarker(d, id) ==
    \/ ElemAt(d, id).cls = "bilingual"
    \/ InsideBilingual(d, id)

\* the internal-UI test of acceptNode (step 2)
RejectsOwnOutput(d, id) ==
    \/ ElemAt(d, id).scanned # ""
    \/ ElemAt(d, id).cls = "bilingual"
    \/ InsideBilingual(d, id)

\* acceptNode for a text container (every element of dom is a P or a DIV)
AcceptNode(d, id) ==
    IF RejectsOwnOutput(d, id) THEN "REJECT"
    ELSE IF HasBlockChildren(d, id) THEN "SKIP"
    ELSE "ACCEPT"

\* the elements walker.nextNode() returns, in document order: accepted by
\* the filter and below no rejected element
Accepted(d) ==
    LET ok(r) == /\ AcceptNode(d, r.id) = "ACCEPT"
                 /\ \A a \in Ancestors(d, r.id) : AcceptNode(d, a) # "REJECT"
        kept == SelectSeq(d, ok)
    IN  [i \in 1..Len(kept) |-> kept[i].id]

\* block.setAttribute('data-context-lingo-scanned', v)
SetScanned(d, id, v) ==
    [i \in DOMAIN d |-> IF d[i].id = id THEN [d[i] EXCEPT !.scanned = v] ELSE d[i]]

\* the index of the last element of id's subtree
SubtreeEnd(d, id) ==
    LET in == {i \in DOMAIN d : d[i].id = id \/ id \in Ancestors(d, d[i].id)}
    IN  CHOOSE i \in in : \A j \in in : j <= i

InsertAt(d, i, r) == SubSeq(d, 1, i) \o <<r>> \o SubSeq(d, i + 1, Len(d))

\* parent.appendChild(new element)
AppendChild(d, parent, id) ==
    InsertAt(d, IF parent = 0 THEN Len(d) ELSE SubtreeEnd(d, parent),
             [id |-> id, parent |-> parent, cls |-> "page", scanned |-> ""])

\* item.block.after(div), div.className = 'context-lingo-bilingual-block'
InsertBilingualAfter(d, b) ==
    InsertAt(d, SubtreeEnd(d, b),
             [id |-> BilId(b), parent |-> ElemAt(d, b).parent,
              cls |-> "bilingual", scanned |-> ""])

(***************************************************************************)
(* TranslationScheduler.  The synchronous stretches of add and flush are   *)
(* operators on a record M of the state they write:                        *)
(*   dom, buffer, isProcessing, cycles, observerPending, noEngineTaken.    *)
(* An activation of flush() is a record                                    *)
(*   batch, engine   the constants of the activation                       *)
(*   i               the index of the current item of the batch            *)
(*   pc              where it is suspended: "translate" (TRANSLATE_TEXT),  *)
(*                   "lookup" (LOOKUP_WORD_RICH), "applied" (the await of  *)
(*                   applySentenceScopedReplacements' result)              *)
(*   translated      transSentences holds translations                     *)
(*   used            history: the vocabulary versions matching has read    *)
(*                   in this activation                                    *)
(* currentAutoTranslate is reassigned by its storage watcher between any   *)
(* two tasks; bilingualMode and aggressiveMode are therefore inputs of the *)
(* task that reads them.                                                   *)
(***************************************************************************)
MaxVersion == 1       \* vocabulary updates delivered by the watch callback
MaxDirect == 2        \* calls of add made by a caller other than scan

Machine == [dom |-> dom, buffer |-> buffer, isProcessing |-> isProcessing,
            cycles |-> cycles, observerPending |-> observerPending,
            noEngineTaken |-> noEngineTaken]

Install(M) ==
    /\ dom' = M.dom
    /\ buffer' = M.buffer
    /\ isProcessing' = M.isProcessing
    /\ cycles' = M.cycles
    /\ observerPending' = M.observerPending
    /\ noEngineTaken' = M.noEngineTaken

SetCycle(M, c, a) == [M EXCEPT !.cycles[c] = a]

\* What one synchronous stretch of applySentenceScopedReplacements meets (the
\* sentences of a block and the candidates of a sentence are data of the page
\* and of the vocabulary; their number is not bounded here):
\*   read    it starts matching a sentence: findFuzzyMatches and the
\*           aggressive-mode filter read currentEntries
\*   lookup  it ends at the await of a LOOKUP_WORD_RICH (aggressive mode on
\*           and a candidate found in the translation); otherwise the loop ends
\*   match   the replacements spliced at the end are non-empty
\* first: the stretch starts the function (the text has a sentence to match).
ApplyInputs(a, first) ==
    {in \in [read : BOOLEAN, lookup : BOOLEAN, match : BOOLEAN] :
        /\ first => in.read
        /\ in.lookup => a.translated /\ ~in.match}

\* findFuzzyMatches(sent, currentEntries, trans) and the aggressive-mode
\* filter read the module-level currentEntries
ReadEntries(a) == a.used \cup {currentEntries}

\* applySentenceScopedReplacements up to its next await or to its end
\* (density filter, overlap removal, splice)
ApplyM(M, c, in) ==
    LET a == M.cycles[c]
        read == IF in.read THEN [a EXCEPT !.used = ReadEntries(a)] ELSE a
    IN  IF in.lookup
        THEN \* suspended on a candidate's LOOKUP_WORD_RICH
             SetCycle(M, c, [read EXCEPT !.pc = "lookup"])
        ELSE \* the loop ends; the splice mutates the block when it replaces
             [SetCycle(M, c, [read EXCEPT !.pc = "applied"])
                 EXCEPT !.observerPending = @ \/ in.match]

RECURSIVE FlushM(_, _)
\* the loop body of flush for item cycles[c].i, up to its first await
StartItemM(M, c, match) ==
    LET a == [M.cycles[c] EXCEPT !.translated = FALSE]
    IN  IF a.engine
        THEN SetCycle(M, c, [a EXCEPT !.pc = "translate"])
        ELSE \* part_001 only: transSentences = sentences.map(() => "")
             ApplyM(SetCycle(M, c, a), c,
                    [read |-> TRUE, lookup |-> FALSE, match |-> match])

\* the end of one iteration of the for loop: the next item, or the end of
\* the activation (isProcessing = false; if (buffer.length > 0) flush())
NextItemM(M, c, match) ==
    LET a == M.cycles[c]
    IN  IF a.i < Len(a.batch)
        THEN StartItemM(SetCycle(M, c, [a EXCEPT !.i = a.i + 1]), c, match)
        ELSE FlushM([M EXCEPT !.cycles = SubSeq(@, 1, c - 1) \o SubSeq(@, c + 1, Len(@)),
                              !.isProcessing = FALSE], match)

NewCycle(batch) ==
    [batch |-> batch, engine |-> engineEnabled, i |-> 1, pc |-> "translate",
     translated |-> FALSE, used |-> {}]

\* a flush that starts over one already running
FlushUnguardedM(M, match) ==
    IF M.buffer = <<>> THEN M
    ELSE LET batch == SliceTo(M.buffer, BatchSize)
             M1 == [M EXCEPT !.isProcessing = TRUE,
                             !.buffer = SubSeq(@, Len(batch) + 1, Len(@)),
                             !.cycles = Append(@, NewCycle(batch))]
         IN  StartItemM(M1, Len(M1.cycles), match)

\* flush(): the guard, the dequeue, and the first item up to its first await
FlushM(M, match) ==
    IF M.isProcessing \/ M.buffer = <<>> THEN M
    ELSE LET batch == SliceTo(M.buffer, BatchSize)
             rest == SubSeq(M.buffer, Len(batch) + 1, Len(M.buffer))
             taken == IF engineEnabled THEN M.noEngineTaken
                      ELSE M.noEngineTaken \cup Range(batch)
         IN  IF build = "index" /\ ~engineEnabled
             THEN \* if (!engine) { this.isProcessing = false; return; }
                  [M EXCEPT !.buffer = rest, !.isProcessing = FALSE,
                            !.noEngineTaken = taken]
             ELSE LET M1 == [M EXCEPT !.isProcessing = TRUE, !.buffer = rest,
                                      !.cycles = Append(@, NewCycle(batch)),
                                      !.noEngineTaken = taken]
                  IN  StartItemM(M1, Len(M1.cycles), match)

\* an add that puts the block at the head of the buffer
AddFrontM(M, n, admitted, match) ==
    IF ~admitted THEN M
    ELSE FlushM([M EXCEPT !.dom = SetScanned(@, n, "pending"),
                          !.buffer = <<n>> \o @], match)

\* add(block); admitted: the block's text passes the length, CJK and
\* punctuation tests
AddM(M, n, admitted, match) ==
    IF ~admitted THEN M
    ELSE FlushM([M EXCEPT !.dom = SetScanned(@, n, "pending"),
                          !.buffer = Append(@, n)], match)

RECURSIVE ScanFromM(_, _, _, _, _)
\* while (walker.nextNode()) scheduler.add(walker.currentNode)
ScanFromM(M, nodes, k, adm, match) ==
    IF k > Len(nodes) THEN M
    ELSE ScanFromM(AddM(M, nodes[k], nodes[k] \in adm, match), nodes, k + 1, adm, match)

\* ---- the steps of the content script
\* whether the splice of a block matched without translations replaces
\* anything; such a block is reached only by an activation without engine
SpliceInputs ==
    IF build = "part_001" /\ (~engineEnabled \/ \E c \in DOMAIN cycles : ~cycles[c].engine)
    THEN BOOLEAN ELSE {FALSE}

\* a continuation that runs as a microtask is due: no task (timer, message
\* response, storage change, page script) runs before it
MicrotaskDue == \E c \in DOMAIN cycles : cycles[c].pc = "applied"

\* scan(), started by the timer (a task) or by the MutationObserver (a
\* microtask)
Scan ==
    /\ \E byTimer \in BOOLEAN :
         /\ IF byTimer THEN timerPending /\ ~MicrotaskDue ELSE observerPending
         /\ timerPending' = (timerPending /\ ~byTimer)
         /\ LET M0 == IF byTimer THEN Machine
                      ELSE [Machine EXCEPT !.observerPending = FALSE]
                nodes == Accepted(dom)
            IN  \E adm \in SUBSET Range(nodes) : \E match \in SpliceInputs :
                   Install(ScanFromM(M0, nodes, 1, adm, match))
    /\ UNCHANGED <<build, nextId, currentEntries, engineEnabled, directAdds>>
    /\ UNCHANGED <<densVars, genVars, codecVars, pathVars, batchVars, importVars, deepVars, spliceVars, rulesVars, captureVars>>

\* a page script inserts a text container
PageInsert ==
    /\ ~MicrotaskDue
    /\ nextId <= MaxPage
    /\ \E p \in {0} \cup {r.id : r \in Range(dom)} :
         dom' = AppendChild(dom, p, nextId)
    /\ nextId' = nextId + 1
    /\ observerPending' = TRUE
    /\ UNCHANGED <<build, buffer, isProcessing, cycles, currentEntries, engineEnabled,
                   timerPending, noEngineTaken, directAdds>>
    /\ UNCHANGED <<densVars, genVars, codecVars, pathVars, batchVars, importVars, deepVars, spliceVars, rulesVars, captureVars>>

\* entriesStorage.watch(v => { if (v) currentEntries = v; })
EntriesWatch ==
    /\ ~MicrotaskDue
    /\ currentEntries < MaxVersion
    /\ currentEntries' = currentEntries + 1
    /\ UNCHANGED <<build, dom, nextId, buffer, isProcessing, cycles, engineEnabled,
                   timerPending, observerPending, noEngineTaken, directAdds>>
    /\ UNCHANGED <<densVars, genVars, codecVars, pathVars, batchVars, importVars, deepVars, spliceVars, rulesVars, captureVars>>

\* enginesStorage.watch(v => { if (v) currentEngines = v; })
EnginesWatch ==
    /\ ~MicrotaskDue
    /\ engineEnabled' = ~engineEnabled
    /\ UNCHANGED <<build, dom, nextId, buffer, isProcessing, cycles, currentEntries,
                   timerPending, observerPending, noEngineTaken, directAdds>>
    /\ UNCHANGED <<densVars, genVars, codecVars, pathVars, batchVars, importVars, deepVars, spliceVars, rulesVars, captureVars>>

\* the TRANSLATE_TEXT round trip returns: "ok" (response.success), "fail"
\* (a response without success) or "throw" (sendMessage rejects)
TranslateResponse ==
    /\ ~MicrotaskDue
    /\ \E c \in DOMAIN cycles : \E out \in {"ok", "fail", "throw"} :
         /\ cycles[c].pc = "translate"
         /\ LET a == cycles[c]
                b == a.batch[a.i]
                got == [a EXCEPT !.translated = (out = "ok")]
                M1 == SetCycle(Machine, c, got)
            IN  IF out = "throw" \/ (out = "fail" /\ build = "index")
                THEN \* the catch, or if (response.success) skipped
                     \E match \in SpliceInputs : Install(NextItemM(M1, c, match))
                ELSE \E bilingualMode \in IF out = "ok" THEN BOOLEAN ELSE {FALSE} :
                     \E in \in ApplyInputs(got, TRUE) :
                        LET bil == IF bilingualMode
                                   THEN [M1 EXCEPT !.dom = InsertBilingualAfter(@, b),
                                                   !.observerPending = TRUE]
                                   ELSE M1
                        IN  Install(ApplyM(bil, c, in))
    /\ UNCHANGED <<build, nextId, currentEntries, engineEnabled, timerPending, directAdds>>
    /\ UNCHANGED <<densVars, genVars, codecVars, pathVars, batchVars, importVars, deepVars, spliceVars, rulesVars, captureVars>>

\* a LOOKUP_WORD_RICH round trip returns (with or without success: the
\* candidate is pushed or not) or rejects
LookupResponse ==
    /\ ~MicrotaskDue
    /\ \E c \in DOMAIN cycles : \E out \in {"return", "throw"} :
         /\ cycles[c].pc = "lookup"
         /\ IF out = "throw"
            THEN \E match \in SpliceInputs : Install(NextItemM(Machine, c, match))
            ELSE \E in \in ApplyInputs(cycles[c], FALSE) : Install(ApplyM(Machine, c, in))
    /\ UNCHANGED <<build, nextId, currentEntries, engineEnabled, timerPending, directAdds>>
    /\ UNCHANGED <<densVars, genVars, codecVars, pathVars, batchVars, importVars, deepVars, spliceVars, rulesVars, captureVars>>

\* the await of applySentenceScopedReplacements resumes:
\* item.block.setAttribute('data-context-lingo-scanned', 'true')
ApplyReturn ==
    /\ \E c \in DOMAIN cycles : \E match \in SpliceInputs :
         /\ cycles[c].pc = "applied"
         /\ LET a == cycles[c]
                M1 == [Machine EXCEPT !.dom = SetScanned(@, a.batch[a.i], "true")]
            IN  Install(NextItemM(M1, c, match))
    /\ UNCHANGED <<build, nextId, currentEntries, engineEnabled, timerPending, directAdds>>
    /\ UNCHANGED <<densVars, genVars, codecVars, pathVars, batchVars, importVars, deepVars, spliceVars, rulesVars, captureVars>>

\* a caller other than scan calls scheduler.add on a block of the page
AddDirect ==
    /\ ~MicrotaskDue
    /\ directAdds < MaxDirect
    /\ \E r \in Range(dom) : \E admitted \in BOOLEAN : \E match \in SpliceInputs :
         /\ r.cls = "page"
         /\ Install(AddM(Machine, r.id, admitted, match))
    /\ directAdds' = directAdds + 1
    /\ UNCHANGED <<build, nextId, currentEntries, engineEnabled, timerPending>>
    /\ UNCHANGED <<densVars, genVars, codecVars, pathVars, batchVars, importVars, deepVars, spliceVars, rulesVars, captureVars>>

ScanInit ==
    /\ build \in {"part_001", "index"}
    /\ dom = <<>>
    /\ nextId = 1
    /\ buffer = <<>>
    /\ isProcessing = FALSE
    /\ cycles = <<>>
    /\ currentEntries = 0
    /\ engineEnabled \in BOOLEAN
    /\ timerPending = TRUE
    /\ observerPending = FALSE
    /\ noEngineTaken = {}
    /\ directAdds = 0

\* the content script before main() has run: nothing scanned, nothing queued
ScanIdle ==
    /\ build = "part_001"
    /\ dom = <<>>
    /\ nextId = 1
    /\ buffer = <<>>
    /\ isProcessing = FALSE
    /\ cycles = <<>>
    /\ currentEntries = 0
    /\ engineEnabled = FALSE
    /\ timerPending = FALSE
    /\ observerPending = FALSE
    /\ noEngineTaken = {}
    /\ directAdds = 0

DensityIdle ==
    /\ allPotentialReplacements = <<>>
    /\ currentStyles = <<>>
    /\ finalFilteredReplacements = <<>>
    /\ nonOverlappingReplacements = <<>>
    /\ densPc = "input"

Init == ScanInit /\ DensityIdle /\ GenIdle /\ CodecIdle /\ PathIdle /\ BatchIdle /\ ImportIdle /\ DeepIdle /\ SpliceIdle /\ RulesIdle /\ CaptureIdle

Next ==
    \/ Scan
    \/ PageInsert
    \/ EntriesWatch
    \/ EnginesWatch
    \/ TranslateResponse
    \/ LookupResponse
    \/ ApplyReturn

\* the content script as it runs in a page
Spec == Init /\ [][Next]_vars

NextSchedApi == Next \/ AddDirect

\* the scheduler with add open to any caller
SpecSchedApi == Init /\ [][NextSchedApi]_vars

(***************************************************************************)
(* Claims about scan and the TranslationScheduler                          *)
(***************************************************************************)
\* the places that hold block b: buffer entries (0, j) and the items not yet
\* finished of the activations of flush (c, j)
Slots(b) ==
    {<<0, j>> : j \in {k \in DOMAIN buffer : buffer[k] = b}} \cup
    UNION {{<<c, j>> : j \in {k \in cycles[c].i..Len(cycles[c].batch) :
                                cycles[c].batch[k] = b}} : c \in DOMAIN cycles}

HeldBlocks == {r.id : r \in {e \in Range(dom) : Slots(e.id) # {}}}

C3_Passed ==
    \A n \in Range(Accepted(dom)) :
        /\ ElemAt(dom, n).scanned = ""
        /\ ElemAt(dom, n).cls = "page"
        /\ ~InsideBilingual(dom, n)

C3_Held ==
    /\ Range(buffer) \subseteq HeldBlocks
    /\ \A b \in HeldBlocks :
        /\ ElemAt(dom, b).scanned # ""
        /\ ElemAt(dom, b).cls = "page"
        /\ ~InsideBilingual(dom, b)

C3_Step ==
    \A r \in Range(dom) :
        r.scanned # "" =>
            /\ ElemAt(dom', r.id).scanned # ""
            /\ Cardinality(Slots(r.id)') <= Cardinality(Slots(r.id))

\* C3: whatever scans and flush cycles have run, the elements a scan passes to
\* add are unmarked, are no bilingual-translation block and lie inside none;
\* the scheduler holds only such page blocks; a marked element keeps a marker
\* and never gains a queue entry, so an element is enqueued at most once.
C3_ScanGuard == [](C3_Passed /\ C3_Held) /\ [][C3_Step]_vars

\* a scan has run after the extension inserted a translation block and marked
\* a block done, with a page element lying unmarked inside the translation
\* block, and nothing is enqueued
C3_Witness ==
    /\ ~timerPending /\ ~observerPending
    /\ buffer = <<>> /\ cycles = <<>>
    /\ \E r \in Range(dom) : r.cls = "page" /\ r.scanned = "true"
    /\ \E r \in Range(dom) :
         r.cls = "page" /\ r.scanned = "" /\ InsideBilingual(dom, r.id)

\* C4: two calls of add on one block before it is flushed leave one buffer
\* entry for it: no block has two entries in the buffer.
C4_AddIdempotent ==
    \A b \in Range(buffer) : Cardinality({j \in DOMAIN buffer : buffer[j] = b}) <= 1

C5_Step ==
    (/\ cycles # <<>> /\ cycles' # <<>>
     /\ cycles'[1].batch = cycles[1].batch
     /\ cycles'[1].i >= cycles[1].i)
        => /\ Len(buffer') >= Len(buffer)
           /\ SubSeq(buffer', 1, Len(buffer)) = buffer

\* C5: at most one activation of flush is in progress, and it is in progress
\* exactly while isProcessing is set; as long as it has not finished its batch
\* nothing leaves the buffer, whatever add is called in between.
C5_NoOverlap ==
    /\ [](Len(cycles) <= 1 /\ (isProcessing <=> cycles # <<>>))
    /\ [][C5_Step]_vars

\* add was called while the batch in progress was suspended on a round trip
C5_Witness ==
    /\ cycles # <<>>
    /\ cycles[1].pc \in {"translate", "lookup"}
    /\ buffer # <<>>

\* C6: inside one activation of flush, matching reads one vocabulary list.
C6_Snapshot ==
    \A c \in DOMAIN cycles : Cardinality(cycles[c].used) <= 1

\* C7: an admitted block is not left marked 'pending': a block marked pending
\* is in the buffer or is an item its flush cycle has not finished (a cycle
\* that has processed a block leaves it marked done).
C7_NoOrphan ==
    \A r \in Range(dom) : r.scanned = "pending" => Slots(r.id) # {}

\* C8: a block dequeued by a flush that found no engine enabled is not
\* discarded: it is an item of that cycle until the cycle has marked it done.
C8_NoEngineProcessed ==
    \A b \in noEngineTaken :
        \/ ElemAt(dom, b).scanned = "true"
        \/ \E c \in DOMAIN cycles : ~cycles[c].engine /\ (\E t \in Slots(b) : t[1] = c)

\* ---- a long page
MaxBlocks == 12       \* text blocks of the page at its first scan

\* a page of MaxBlocks text blocks under the scan root
LongPage ==
    [i \in 1..MaxBlocks |->
        [id |-> MaxPage + i, parent |-> 0, cls |-> "page", scanned |-> ""]]

\* the content script right after the first scan of the long page, with no
\* engine enabled: every block but possibly the last was admitted
InitLongPage ==
    /\ build = "part_001"
    /\ engineEnabled = FALSE
    /\ nextId = 1
    /\ currentEntries = 0
    /\ timerPending = FALSE
    /\ directAdds = 0
    /\ \E late \in SUBSET {MaxPage + MaxBlocks} : \E match \in BOOLEAN :
          LET M0 == [dom |-> LongPage, buffer |-> <<>>, isProcessing |-> FALSE,
                     cycles |-> <<>>, observerPending |-> FALSE, noEngineTaken |-> {}]
              nodes == Accepted(LongPage)
              M1 == ScanFromM(M0, nodes, 1, Range(nodes) \ late, match)
          IN  /\ dom = M1.dom
              /\ buffer = M1.buffer
              /\ isProcessing = M1.isProcessing
              /\ cycles = M1.cycles
              /\ observerPending = M1.observerPending
              /\ noEngineTaken = M1.noEngineTaken
    /\ DensityIdle
    /\ GenIdle
    /\ CodecIdle
    /\ PathIdle
    /\ BatchIdle
    /\ ImportIdle
    /\ DeepIdle
    /\ SpliceIdle
    /\ RulesIdle
    /\ CaptureIdle

NextLongPage == Scan \/ PageInsert \/ ApplyReturn

\* the scheduler working through the long page
SpecLongPage == InitLongPage /\ [][NextLongPage]_vars

\* the blocks waiting to be processed, oldest first: the items of the
\* running cycle from the current one on, then the buffer
Queue ==
    (IF cycles = <<>> THEN <<>>
     ELSE SubSeq(cycles[1].batch, cycles[1].i, Len(cycles[1].batch))) \o buffer

C27_Step ==
    /\ \E k \in 0..Len(Queue) :
          LET kept == SubSeq(Queue, k + 1, Len(Queue))
          IN  /\ Len(Queue') >= Len(kept)
              /\ SubSeq(Queue', 1, Len(kept)) = kept
              /\ \A j \in (Len(kept) + 1)..Len(Queue') : Queue'[j] \notin Range(Queue)
    /\ cycles # <<>> =>
          \A b \in Range(Queue') \ Range(Queue) :
              /\ b \in Range(buffer')
              /\ cycles' # <<>> /\ b \notin Range(cycles'[1].batch)

\* C27: a flush cycle holds at most BatchSize blocks; blocks leave the queue
\* (current batch, then buffer) only from its head and join it only at its
\* tail, so a cycle takes the oldest buffered blocks and blocks are processed
\* in enqueue order; a block enqueued while a cycle runs goes to the buffer,
\* not into the running batch.
C27_FifoBatching ==
    /\ [](\A c \in DOMAIN cycles : Len(cycles[c].batch) <= BatchSize)
    /\ [][C27_Step]_vars

\* a cycle works on a full batch taken from a longer buffer, with a block
\* left behind that was enqueued while an earlier cycle was running
C27_Witness ==
    /\ cycles # <<>>
    /\ Len(cycles[1].batch) = BatchSize
    /\ cycles[1].i > 1
    /\ buffer # <<>>

\* ---- inputs of the density stage
MaxCands == 3    \* candidates in a block (arbitrary order)
MaxPos == 2      \* largest start offset of such a candidate
MaxCount == 4    \* largest configured count
MaxRun == 25     \* candidates of one category in a long block

Candidate(start, entry) == [start |-> start, end |-> start + entry.len, entry |-> entry]

\* ord: the candidate's place in accumulation order (its identity)
Tagged(s) == [i \in 1..Len(s) |->
                [start |-> s[i].start, end |-> s[i].end, entry |-> s[i].entry, ord |-> i]]

SmallBlocks ==
    {Tagged(s) : s \in SeqsUpTo({Candidate(p, e) : p \in 0..MaxPos, e \in Vocabulary}, MaxCands)}

\* n candidates of one entry, accumulated right to left
LongRun(n) ==
    LET e == CHOOSE v \in Vocabulary : v.id = "w1"
    IN  Tagged([i \in 1..n |-> Candidate(n - i, e)])

\* the three candidates [0,5), [3,8), [5,9), in every accumulation order
OverlapExample ==
    LET e(id, n) == [id |-> id, category |-> "WantToLearnWord", len |-> n]
        c == << Candidate(0, e("w3", 5)), Candidate(3, e("w4", 5)), Candidate(5, e("w5", 4)) >>
    IN  {Tagged([i \in 1..3 |-> c[f[i]]]) : f \in {g \in [1..3 -> 1..3] : Range(g) = 1..3}}

PercentSamples == {0, 28, 50, 100}

StyleCount == {[densityMode |-> "count", densityValue |-> n] : n \in 0..MaxCount}
StylePercent(S) == {[densityMode |-> "percent", densityValue |-> p] : p \in S}

SmallStyles ==
    {<<>>} \cup
    {[c \in {"WantToLearnWord"} |-> st] : st \in StyleCount \cup StylePercent(PercentSamples)} \cup
    {[c \in {"WantToLearnWord", "LearningWord"} |->
        IF c = "WantToLearnWord" THEN st ELSE [densityMode |-> "count", densityValue |-> 1]]
       : st \in StyleCount \cup StylePercent(PercentSamples)}

LongStyles ==
    {[c \in {"WantToLearnWord"} |-> st] : st \in StyleCount \cup StylePercent(0..100)}

InitDensity ==
    /\ \/ /\ allPotentialReplacements \in SmallBlocks
          /\ currentStyles \in SmallStyles
       \/ /\ allPotentialReplacements \in OverlapExample
          /\ currentStyles = <<>>
       \/ /\ allPotentialReplacements \in {LongRun(n) : n \in 0..MaxRun}
          /\ currentStyles \in LongStyles
    /\ finalFilteredReplacements = <<>>
    /\ nonOverlappingReplacements = <<>>
    /\ densPc = "input"
    /\ ScanIdle
    /\ GenIdle
    /\ CodecIdle
    /\ PathIdle
    /\ BatchIdle
    /\ ImportIdle
    /\ DeepIdle
    /\ SpliceIdle
    /\ RulesIdle
    /\ CaptureIdle

ApplyDensity ==
    /\ densPc = "input"
    /\ finalFilteredReplacements' = DensityFilter(allPotentialReplacements, currentStyles)
    /\ densPc' = "filtered"
    /\ UNCHANGED <<allPotentialReplacements, currentStyles, nonOverlappingReplacements>>
    /\ UNCHANGED <<scanVars, genVars, codecVars, pathVars, batchVars, importVars, deepVars, spliceVars, rulesVars, captureVars>>

\* step 3 up to the overlap removal: the in-place sort by start, then the
\* greedy loop
ResolveOverlaps ==
    /\ densPc = "filtered"
    /\ finalFilteredReplacements' = SortByStart(finalFilteredReplacements)
    /\ nonOverlappingReplacements' = RemoveOverlaps(SortByStart(finalFilteredReplacements))
    /\ densPc' = "resolved"
    /\ UNCHANGED <<allPotentialReplacements, currentStyles>>
    /\ UNCHANGED <<scanVars, genVars, codecVars, pathVars, batchVars, importVars, deepVars, spliceVars, rulesVars, captureVars>>

NextDensity == ApplyDensity \/ ResolveOverlaps

SpecDensity == InitDensity /\ [][NextDensity]_vars

(***************************************************************************)
(* Claims about the density filter                                         *)
(***************************************************************************)
OfCategory(s, cat) == {s[i] : i \in {j \in DOMAIN s : s[j].entry.category = cat}}

ModeOf(cat) == IF cat \in DOMAIN currentStyles THEN currentStyles[cat].densityMode ELSE "absent"

\* C9: in "count" mode with count N >= 0, a category with T candidates keeps
\* exactly min(N, T) of its own candidates, none of them starting after a
\* dropped one, whatever the other categories hold.
C9_CountCap ==
    densPc = "filtered" =>
        \A cat \in Range(WordCategory) :
            ModeOf(cat) = "count" =>
                LET all == OfCategory(allPotentialReplacements, cat)
                    kept == OfCategory(finalFilteredReplacements, cat)
                IN  /\ kept \subseteq all
                    /\ Cardinality({i \in DOMAIN finalFilteredReplacements :
                                      finalFilteredReplacements[i].entry.category = cat})
                         = Min(currentStyles[cat].densityValue, Cardinality(all))
                    /\ \A k \in kept : \A d \in all \ kept : k.start <= d.start

\* a block whose "count" category is really cut, and whose candidates were
\* not accumulated in position order
C9_Witness ==
    /\ densPc = "filtered"
    /\ ModeOf("WantToLearnWord") = "count"
    /\ LET all == OfCategory(allPotentialReplacements, "WantToLearnWord")
           kept == OfCategory(finalFilteredReplacements, "WantToLearnWord")
       IN  /\ Cardinality(all) = 2
           /\ Cardinality(kept) = 1
           /\ \E d \in all \ kept : \E k \in kept : d.ord < k.ord
    /\ OfCategory(finalFilteredReplacements, "LearningWord") # {}

\* the interval of a candidate
Span(r) == <<r.start, r.end>>

\* the position in s of the candidate accumulated as number ord (0: absent)
PlaceOf(s, ord) ==
    IF \E i \in DOMAIN s : s[i].ord = ord THEN CHOOSE i \in DOMAIN s : s[i].ord = ord ELSE 0

\* C11: after the greedy scan over the candidates sorted ascending by start,
\* the kept candidates are some of the sorted ones in their order, each kept
\* one starts at or after the end of the kept one before it, a candidate is
\* dropped only if it starts before the end of the most recently kept one,
\* and [0,5), [3,8), [5,9) resolve to [0,5) and [5,9).
C11_OverlapResolution ==
    densPc = "resolved" =>
        LET sorted == finalFilteredReplacements
            kept == nonOverlappingReplacements
            at(k) == PlaceOf(sorted, kept[k].ord)
        IN  /\ \A i \in 1..(Len(sorted) - 1) : sorted[i].start <= sorted[i + 1].start
            /\ \A k \in DOMAIN kept : at(k) # 0 /\ sorted[at(k)] = kept[k]
            /\ \A k \in 1..(Len(kept) - 1) :
                   at(k) < at(k + 1) /\ kept[k + 1].start >= kept[k].end
            /\ \A j \in DOMAIN sorted :
                   PlaceOf(kept, sorted[j].ord) = 0 =>
                       \E k \in DOMAIN kept :
                           /\ at(k) < j
                           /\ \A m \in DOMAIN kept : at(m) < j => at(m) <= at(k)
                           /\ sorted[j].start < kept[k].end
            /\ allPotentialReplacements \in OverlapExample =>
                   [k \in DOMAIN kept |-> Span(kept[k])] = << <<0, 5>>, <<5, 9>> >>

\* the example has been resolved from an accumulation order that is not the
\* position order
C11_Witness ==
    /\ densPc = "resolved"
    /\ allPotentialReplacements \in OverlapExample
    /\ allPotentialReplacements[1].start = 5
    /\ Len(nonOverlappingReplacements) = 2

\* C25: of two candidates that enter overlap resolution with the same start
\* offset, the one accumulated later by the matching stage is never the one
\* kept, whatever the categories of their entries.
C25_EqualStartTieBreak ==
    densPc = "resolved" =>
        \A i, k \in DOMAIN finalFilteredReplacements :
            LET a == finalFilteredReplacements[i]
                b == finalFilteredReplacements[k]
            IN  (a.start = b.start /\ a.ord < b.ord) =>
                    PlaceOf(nonOverlappingReplacements, b.ord) = 0

\* ceil(t * p / 100) over the integers
CeilPercent(t, p) == (t * p + 99) \div 100

\* C10: in "percent" mode with percent p, a category with T candidates keeps
\* exactly ceil(T * p / 100) of them.
C10_PercentCap ==
    densPc = "filtered" =>
        \A cat \in Range(WordCategory) :
            ModeOf(cat) = "percent" =>
                Cardinality(OfCategory(finalFilteredReplacements, cat))
                  = CeilPercent(Cardinality(OfCategory(allPotentialReplacements, cat)),
                                currentStyles[cat].densityValue)

(***************************************************************************)
(* The batch data generator: runGeneration.  A JSON value is a record      *)
(*   [kind, n, s, keys, vals]                                              *)
(* kind "null", "num" (n), "str" (s, a sequence of characters), "obj"      *)
(* (keys and vals in Object.entries order), "arr" (vals), and "json" for   *)
(* the text JSON.stringify makes of vals[1].  A path is the sequence of    *)
(* the characters of the path string.                                      *)
(***************************************************************************)
MAX_DEPTH == 50

Null == [kind |-> "null", n |-> 0, s |-> <<>>, keys |-> <<>>, vals |-> <<>>]
Num(n) == [kind |-> "num", n |-> n, s |-> <<>>, keys |-> <<>>, vals |-> <<>>]
Str(s) == [kind |-> "str", n |-> 0, s |-> s, keys |-> <<>>, vals |-> <<>>]
Obj(keys, vals) == [kind |-> "obj", n |-> 0, s |-> <<>>, keys |-> keys, vals |-> vals]
Arr(vals) == [kind |-> "arr", n |-> 0, s |-> <<>>, keys |-> <<>>, vals |-> vals]
JsonText(v) == [kind |-> "json", n |-> 0, s |-> <<>>, keys |-> <<>>, vals |-> <<v>>]

Digits == <<"0", "1", "2", "3", "4", "5", "6", "7", "8", "9">>

DigitChars == Range(Digits)

IsDigit(c) == c \in DigitChars

RECURSIVE DecimalChars(_)
\* String(idx) for an array index
DecimalChars(n) ==
    IF n < 10 THEN <<Digits[n + 1]>>
    ELSE Append(DecimalChars(n \div 10), Digits[(n % 10) + 1])

RECURSIVE SkipDigits(_, _)
\* the first position at or after i that holds no digit
SkipDigits(p, i) ==
    IF i <= Len(p) /\ IsDigit(p[i]) THEN SkipDigits(p, i + 1) ELSE i

RECURSIVE NormalizeOneDigitFrom(_, _)
NormalizeOneDigitFrom(p, i) ==
    IF i > Len(p) THEN <<>>
    ELSE IF p[i] = "." /\ i < Len(p) /\ IsDigit(p[i + 1])
         THEN NormalizeOneDigitFrom(p, i + 2)
         ELSE <<p[i]>> \o NormalizeOneDigitFrom(p, i + 1)

\* a normalization that takes one digit with the '.': path.replace(/\.\d/g, '')
normalizePathOneDigit(path) == NormalizeOneDigitFrom(path, 1)

RECURSIVE NormalizeFrom(_, _)
\* the text of p from position i on without its matches of /\.\d+/: the
\* leftmost match is cut out and the scan goes on behind it
NormalizeFrom(p, i) ==
    LET hits == {k \in i..(Len(p) - 1) : p[k] = "." /\ IsDigit(p[k + 1])}
    IN  IF hits = {} THEN SubSeq(p, i, Len(p))
        ELSE LET k == CHOOSE h \in hits : \A g \in hits : h <= g
             IN  SubSeq(p, i, k - 1) \o NormalizeFrom(p, SkipDigits(p, k + 1))

\* `${path}.${k}`
JoinPath(path, k) == path \o <<".">> \o k

\* lp.startsWith(prefix)
StartsWith(lp, prefix) ==
    Len(lp) >= Len(prefix) /\ SubSeq(lp, 1, Len(prefix)) = prefix

\* n && typeof n === 'object'
IsObjectLike(n) == n.kind \in {"obj", "arr"}

\* the truthiness of a JSON value
Truthy(n) ==
    CASE n.kind \in {"null", "undef"} -> FALSE
      [] n.kind \in {"num", "bool"} -> n.n # 0
      [] n.kind = "str" -> n.s # <<>>
      [] OTHER -> TRUE

\* Object.entries(n): <<key, value>> pairs; an array's keys are its indices
ObjectEntries(n) ==
    IF n.kind = "obj" THEN [i \in 1..Len(n.keys) |-> <<n.keys[i], n.vals[i]>>]
    ELSE IF n.kind = "arr" THEN [i \in 1..Len(n.vals) |-> <<DecimalChars(i - 1), n.vals[i]>>]
    ELSE <<>>

\* val[k] for an object (Null stands for undefined: both are falsy)
Prop(n, k) ==
    IF \E i \in DOMAIN n.keys : n.keys[i] = k
    THEN n.vals[CHOOSE i \in DOMAIN n.keys : n.keys[i] = k]
    ELSE Null

\* the keys sanitize looks for in an object
SanitizeKeys ==
    << <<"t","e","x","t">>, <<"v","a","l","u","e">>, <<"w","o","r","d">>,
       <<"c","h","n","_","t","r","a","n">>, <<"t","r","a","n">>,
       <<"d","e","f","i","n","i","t","i","o","n">>, <<"i">> >>

RECURSIVE sanitize(_)
sanitize(val) ==
    CASE val.kind = "null" -> Str(<<>>)
      [] val.kind \in {"str", "num"} -> val
      [] val.kind = "arr" -> IF val.vals = <<>> THEN Str(<<>>) ELSE sanitize(val.vals[1])
      [] val.kind = "obj" ->
           LET hits == {j \in DOMAIN SanitizeKeys : Truthy(Prop(val, SanitizeKeys[j]))}
           IN  IF hits = {} THEN JsonText(val)
               ELSE sanitize(Prop(val, SanitizeKeys[CHOOSE j \in hits : \A h \in hits : j <= h]))

\* the fields a mapping can name
AllFields == {"fieldX", "fieldY"}

\* new Map()
EmptyCtx == [f \in AllFields |-> <<>>]

\* ctx is a Map from fields to candidate arrays.  The folds below test it
\* before each step, which makes TLC evaluate the Map accumulated so far
\* instead of carrying it unevaluated to the end.
IsCtx(ctx) == DOMAIN ctx = AllFields

RootPath == <<"r", "o", "o", "t">>

\* ---- the documents the generator is run on
MaxItems == 2       \* elements of the marked list
MaxMappings == 2    \* mapped paths

Ka == <<"a">>
Kpos == <<"p", "o", "s">>
Klist == <<"l", "i", "s", "t">>
Kx == <<"x">>
Ky == <<"y">>
Ksub == <<"s", "u", "b">>
Kz == <<"z">>
Ko == <<"o">>

RECURSIVE PathOf(_)
\* the path string of a property reached from the root by the keys ks
PathOf(ks) == IF ks = <<>> THEN RootPath
              ELSE JoinPath(PathOf(SubSeq(ks, 1, Len(ks) - 1)), ks[Len(ks)])

\* the i-th element of the list, in one of three shapes
Item(shape, i) ==
    CASE shape = "flat" -> Obj(<<Kx, Ky>>, <<Num(i), Num(10 * i)>>)
      [] shape = "nested" ->
           Obj(<<Kx, Ksub>>,
               <<Num(i), Arr([j \in 1..2 |-> Obj(<<Kz>>, <<Num(100 * i + j)>>)])>>)
      [] shape = "sparse" ->
           IF i % 2 = 1 THEN Obj(<<Kx, Ky>>, <<Null, Num(10 * i)>>)
           ELSE Obj(<<Kx>>, <<Num(i)>>)

\* { a: { pos: 7, list: <list> }, o: { y: 5 } }
DocOf(list) ==
    Obj(<<Ka, Ko>>, <<Obj(<<Kpos, Klist>>, <<Num(7), list>>), Obj(<<Ky>>, <<Num(5)>>)>>)

Docs ==
    {DocOf(Arr([i \in 1..n |-> Item(shape, i)])) :
        n \in 0..MaxItems, shape \in {"flat", "nested", "sparse"}}
    \cup {DocOf(Item("flat", 1))}

RECURSIVE NodesUnder(_, _)
\* the values below n, each with its concrete path: <<path, value>>
NodesUnder(n, p) ==
    LET es == ObjectEntries(n)
    IN  UNION {{<<JoinPath(p, es[i][1]), es[i][2]>>} \cup NodesUnder(es[i][2], JoinPath(p, es[i][1]))
               : i \in DOMAIN es}

\* the concrete paths of the values of the documents
KnownPaths == {RootPath} \cup UNION {{nd[1] : nd \in NodesUnder(d, RootPath)} : d \in Docs}

\* the normal forms of the documents' paths, computed once
NormalForm == [p \in KnownPaths |-> NormalizeFrom(p, 1)] @@ <<>>

\* path.replace(/\.\d+/g, '')
normalizePath(path) ==
    IF path \in KnownPaths THEN NormalForm[path] ELSE NormalizeFrom(path, 1)

RECURSIVE CollectMatches(_, _, _, _, _, _)
\* mappingConfigs.filter(m => m.path === norm && m.isBase === base).forEach(
\*   m => ctx.set(m.field, [...(ctx.get(m.field) || []), {val: v, w: m.weight}]))
\* src (history): the concrete path of the value
CollectMatches(ctx, norm, v, src, base, j) ==
    IF j > Len(mappings) \/ ~IsCtx(ctx) THEN ctx
    ELSE LET m == mappings[j]
             hit == m.path = norm /\ m.isBase = base
             cand == [val |-> v, w |-> m.weight, src |-> src, base |-> base]
         IN  CollectMatches(IF hit THEN [ctx EXCEPT ![m.field] = Append(@, cand)] ELSE ctx,
                            norm, v, src, base, j + 1)

RECURSIVE CollectEntriesFrom(_, _, _, _)
CollectEntriesFrom(es, currentPath, ctx, i) ==
    IF i > Len(es) \/ ~IsCtx(ctx) THEN ctx
    ELSE LET propPath == JoinPath(currentPath, es[i][1])
         IN  CollectEntriesFrom(es, currentPath,
                 CollectMatches(ctx, normalizePath(propPath), es[i][2], propPath, FALSE, 1),
                 i + 1)

collectContextFromObject(obj, currentPath, ctx) ==
    IF ~IsObjectLike(obj) THEN ctx
    ELSE CollectEntriesFrom(ObjectEntries(obj), currentPath, ctx, 1)

\* a generation that collects no base candidate
collectBaseNone(n, p, d, globalBase) == globalBase

RECURSIVE collectBase(_, _, _, _)
RECURSIVE CollectBaseKids(_, _, _, _, _)
\* collectBase(n, p, d), accumulating into globalBase
collectBase(n, p, d, globalBase) ==
    IF d > MAX_DEPTH THEN globalBase
    ELSE LET here == CollectMatches(globalBase, normalizePath(p), n, p, TRUE, 1)
         IN  IF IsObjectLike(n) THEN CollectBaseKids(ObjectEntries(n), p, d, here, 1)
             ELSE here

CollectBaseKids(es, p, d, globalBase, i) ==
    IF i > Len(es) \/ ~IsCtx(globalBase) THEN globalBase
    ELSE CollectBaseKids(es, p, d,
             collectBase(es[i][2], JoinPath(p, es[i][1]), d + 1, globalBase), i + 1)

\* a finalize that takes the candidates as they were collected
SortByWeightNone(cs) == cs

RECURSIVE SortByWeight(_)
\* candidates.sort((a, b) => a.w - b.w): stable
SortByWeight(cs) ==
    IF cs = <<>> THEN <<>>
    ELSE LET front == SortByWeight(SubSeq(cs, 1, Len(cs) - 1))
             x == cs[Len(cs)]
             n == Cardinality({i \in DOMAIN front : front[i].w <= x.w})
         IN  SubSeq(front, 1, n) \o <<x>> \o SubSeq(front, n + 1, Len(front))

\* finalize(ctx): the entries it pushes (one or none).  collected, cands and
\* item are history: the candidates of each field as combined and as sorted,
\* and the concrete path of the item the entry was finalized for.
finalize(ctx, globalBase, item) ==
    LET sorted == [f \in AllFields |-> SortByWeight(ctx[f] \o globalBase[f])]
        usable(f) == {i \in DOMAIN sorted[f] : sorted[f][i].val.kind # "null"}
        set == {f \in AllFields : usable(f) # {}}
        first(f) == CHOOSE i \in usable(f) : \A j \in usable(f) : i <= j
        entry == [text |-> "word",
                  fields |-> [f \in set |-> sanitize(sorted[f][first(f)].val)],
                  collected |-> [f \in AllFields |-> ctx[f] \o globalBase[f]],
                  cands |-> sorted,
                  item |-> item]
    IN  IF set # {} THEN <<entry>> ELSE <<>>

\* a deep scan that collects nothing
deepCollectNone(nn, pp, dd, leafCtx) == leafCtx

RECURSIVE deepCollect(_, _, _, _)
RECURSIVE DeepCollectKids(_, _, _, _, _)
\* deepCollect(nn, pp, dd), accumulating into leafCtx
deepCollect(nn, pp, dd, leafCtx) ==
    IF dd > MAX_DEPTH THEN leafCtx
    ELSE IF IsObjectLike(nn)
         THEN DeepCollectKids(ObjectEntries(nn), pp, dd,
                              collectContextFromObject(nn, pp, leafCtx), 1)
         ELSE leafCtx

\* Object.entries(nn).forEach(([kk, vv]) => deepCollect(vv, `${pp}.${kk}`, dd + 1))
DeepCollectKids(es, pp, dd, leafCtx, i) ==
    IF i > Len(es) \/ ~IsCtx(leafCtx) THEN leafCtx
    ELSE DeepCollectKids(es, pp, dd,
             deepCollect(es[i][2], JoinPath(pp, es[i][1]), dd + 1, leafCtx), i + 1)

ListPaths == Range(lists)

\* a marker test that finds a deeper list under every list
HasSubListAlways(nPath) == TRUE

\* Array.from(listPaths).some(lp => lp.startsWith(nPath + '.') && lp !== nPath)
HasSubList(nPath) ==
    \E lp \in ListPaths : StartsWith(lp, Append(nPath, ".")) /\ lp # nPath

\* a list item's context aliased to the one of the item before it
ItemCtxAliased(currentCtx, prevItemCtx) == prevItemCtx

\* const itemCtx = new Map(currentCtx); prevItemCtx is the context of the
\* item before it (currentCtx for the first)
ItemCtx(currentCtx, prevItemCtx) == currentCtx

RECURSIVE traverse(_, _, _, _, _)
RECURSIVE TraverseKids(_, _, _, _, _, _)
RECURSIVE TraverseItems(_, _, _, _, _, _, _)
\* a traversal without the depth guard
traverseUnbounded(node, path, inheritedCtx, depth, globalBase) ==
    LET nPath == normalizePath(path)
        currentCtx == IF node.kind = "obj"
                      THEN collectContextFromObject(node, path, inheritedCtx)
                      ELSE inheritedCtx
    IN  IF nPath \in ListPaths /\ Truthy(node)
        THEN TraverseItems(node, path, currentCtx, depth, globalBase, 1, currentCtx)
        ELSE IF IsObjectLike(node)
        THEN TraverseKids(ObjectEntries(node), path, currentCtx, depth + 1, globalBase, 1)
        ELSE <<>>

\* traverse(node, path, inheritedCtx, depth): the entries pushed, in order
traverse(node, path, inheritedCtx, depth, globalBase) ==
    IF depth > MAX_DEPTH THEN <<>>
    ELSE LET nPath == normalizePath(path)
             currentCtx == IF node.kind = "obj"
                           THEN collectContextFromObject(node, path, inheritedCtx)
                           ELSE inheritedCtx
         IN  IF nPath \in ListPaths /\ Truthy(node)
             THEN TraverseItems(node, path, currentCtx, depth, globalBase, 1, currentCtx)
             ELSE IF IsObjectLike(node)
             THEN TraverseKids(ObjectEntries(node), path, currentCtx, depth + 1, globalBase, 1)
             ELSE <<>>

\* Object.keys(node).forEach(k => traverse(node[k], `${path}.${k}`, ctx, depth))
TraverseKids(es, path, ctx, depth, globalBase, i) ==
    IF i > Len(es) THEN <<>>
    ELSE traverse(es[i][2], JoinPath(path, es[i][1]), ctx, depth, globalBase)
         \o TraverseKids(es, path, ctx, depth, globalBase, i + 1)

\* items.forEach((item, idx) => { ... }) from item idx on
TraverseItems(node, path, currentCtx, depth, globalBase, idx, prevItemCtx) ==
    LET items == IF node.kind = "arr" THEN node.vals ELSE <<node>>
    IN  IF idx > Len(items) THEN <<>>
        ELSE LET item == items[idx]
                 subInstancePath == IF node.kind = "arr"
                                    THEN JoinPath(path, DecimalChars(idx - 1))
                                    ELSE path
                 itemCtx == collectContextFromObject(item, subInstancePath,
                                                     ItemCtx(currentCtx, prevItemCtx))
                 out == IF HasSubList(normalizePath(path)) /\ IsObjectLike(item)
                        THEN TraverseKids(ObjectEntries(item), subInstancePath, itemCtx,
                                          depth + 1, globalBase, 1)
                        ELSE finalize(DeepCollectKids(ObjectEntries(item), subInstancePath,
                                                      depth, itemCtx, 1),
                                      globalBase, subInstancePath)
             IN  out \o TraverseItems(node, path, currentCtx, depth, globalBase,
                                      idx + 1, itemCtx)

\* the three scans of runGeneration applied to the value at path, reached at
\* depth d: collectBase(n, p, d), traverse(n, p, new Map(), d) and, when
\* nothing was produced and no list is marked, deepCollectRoot(n, p, d)
GenerateFrom(n, path, d) ==
    LET globalBase == collectBase(n, path, d, EmptyCtx)
        wordFinalEntries == traverse(n, path, EmptyCtx, d, globalBase)
    IN  IF wordFinalEntries = <<>> /\ mappings # <<>> /\ lists = <<>>
        THEN \* the fallback: deepCollectRoot(data, 'root', 0); finalize(rootCtx)
             finalize(deepCollect(n, path, d, EmptyCtx), globalBase, path)
        ELSE wordFinalEntries

\* the entries runGeneration produces for one word
GenerateWord(doc) == GenerateFrom(doc, RootPath, 0)

\* ---- the rules and the list markers the editor can hold
MappedPaths ==
    << PathOf(<<Ka, Kpos>>), PathOf(<<Ka, Klist, Kx>>), PathOf(<<Ka, Klist, Ky>>),
       PathOf(<<Ka, Klist, Ksub, Kz>>), PathOf(<<Ko, Ky>>) >>

MappingChoices ==
    { [field |-> "fieldX", weight |-> 1, isBase |-> FALSE],
      [field |-> "fieldY", weight |-> 1, isBase |-> FALSE],
      [field |-> "fieldX", weight |-> 2, isBase |-> FALSE],
      [field |-> "fieldX", weight |-> 1, isBase |-> TRUE] }

\* the elements of seq at the positions in idx, in order
Pick(seq, idx) == SelectSeq([i \in DOMAIN seq |-> <<i, seq[i]>>], LAMBDA pr : pr[1] \in idx)

\* the rule sets the editor can build: one mapping per path (setMapping)
MappingSets ==
    UNION {
      { [j \in 1..Cardinality(idx) |->
            [path |-> Pick(MappedPaths, idx)[j][2],
             field |-> ch[Pick(MappedPaths, idx)[j][1]].field,
             weight |-> ch[Pick(MappedPaths, idx)[j][1]].weight,
             isBase |-> ch[Pick(MappedPaths, idx)[j][1]].isBase]]
        : ch \in [idx -> MappingChoices] }
      : idx \in {t \in SUBSET DOMAIN MappedPaths : Cardinality(t) <= MaxMappings} }

ListCandidates ==
    << PathOf(<<Ka>>), PathOf(<<Ka, Klist>>), PathOf(<<Ka, Klist, Ksub>>) >>

ListSets ==
    { [j \in 1..Cardinality(idx) |-> Pick(ListCandidates, idx)[j][2]]
      : idx \in SUBSET DOMAIN ListCandidates }

InitGen ==
    /\ mappings \in MappingSets
    /\ lists \in ListSets
    /\ data \in Docs
    /\ previewResult = <<>>
    /\ genPc = "ready"
    /\ ScanIdle
    /\ DensityIdle
    /\ CodecIdle
    /\ PathIdle
    /\ BatchIdle
    /\ ImportIdle
    /\ DeepIdle
    /\ SpliceIdle
    /\ RulesIdle
    /\ CaptureIdle

\* runGeneration for one word whose document has been fetched
RunGeneration ==
    /\ genPc = "ready"
    /\ previewResult' = GenerateWord(data)
    /\ genPc' = "done"
    /\ UNCHANGED <<mappings, lists, data>>
    /\ UNCHANGED <<scanVars, densVars, codecVars, pathVars, batchVars, importVars, deepVars, spliceVars, rulesVars, captureVars>>

NextGen == RunGeneration

SpecGen == InitGen /\ [][NextGen]_vars

(***************************************************************************)
(* Claims about the generator                                              *)
(***************************************************************************)
\* path.split('.')
SplitPath(path) ==
    LET dots == {i \in DOMAIN path : path[i] = "."}
        n == Cardinality(dots)
        dotAt(k) == IF k = 0 THEN 0
                    ELSE IF k > n THEN Len(path) + 1
                    ELSE CHOOSE i \in dots : Cardinality({j \in dots : j < i}) = k - 1
    IN  [k \in 1..(n + 1) |-> SubSeq(path, dotAt(k - 1) + 1, dotAt(k) - 1)] \o <<>>

\* the segments of the documents' paths, computed once
KnownSegments == [p \in KnownPaths |-> SplitPath(p)] @@ <<>>

\* the segments of a path string
Segments(path) == IF path \in KnownPaths THEN KnownSegments[path] ELSE SplitPath(path)

IsPrefix(a, b) == Len(a) <= Len(b) /\ SubSeq(b, 1, Len(a)) = a

\* the child of n below segment k (an index for an array)
Child(n, k) ==
    LET es == ObjectEntries(n)
    IN  es[CHOOSE i \in DOMAIN es : es[i][1] = k][2]

RECURSIVE ValueAt(_, _, _)
\* the value of doc at the concrete path with segments q (q[1] is "root")
ValueAt(n, q, i) == IF i > Len(q) THEN n ELSE ValueAt(Child(n, q[i]), q, i + 1)

\* a candidate read at src belongs to the item at path item: it is a property
\* of a node on the way from the root to the item, or lies inside the item
OwnCandidate(src, item) ==
    LET q == Segments(src)
        l == Segments(item)
    IN  IsPrefix(SubSeq(q, 1, Len(q) - 1), l) \/ IsPrefix(l, q)

ExampleMappings ==
    << [path |-> PathOf(<<Ka, Klist, Kx>>), field |-> "fieldX", weight |-> 1, isBase |-> FALSE],
       [path |-> PathOf(<<Ka, Klist, Ky>>), field |-> "fieldY", weight |-> 1, isBase |-> FALSE] >>

IsExample ==
    /\ data = DocOf(Arr([i \in 1..2 |-> Item("flat", i)]))
    /\ mappings = ExampleMappings
    /\ lists = <<PathOf(<<Ka, Klist>>)>>

\* C2: every candidate of an entry that is not a base candidate was read on
\* the way from the root to the entry's own item or inside that item, and is
\* the document's value there, so nothing read inside a sibling element or
\* another branch reaches the entry; for the list [{x:1,y:10},{x:2,y:20}] the
\* entries are (1,10) and (2,20).
C2_ContextIsolation ==
    genPc = "done" =>
        /\ \A i \in DOMAIN previewResult : \A f \in AllFields :
             \A j \in DOMAIN previewResult[i].cands[f] :
                LET c == previewResult[i].cands[f][j]
                IN  ~c.base =>
                      /\ OwnCandidate(c.src, previewResult[i].item)
                      /\ c.val = ValueAt(data, Segments(c.src), 2)
        /\ IsExample =>
             /\ Len(previewResult) = 2
             /\ \A i \in 1..2 :
                  previewResult[i].fields = [f \in AllFields |->
                                               IF f = "fieldX" THEN Num(i) ELSE Num(10 * i)]

\* the example has been generated: two sibling elements, each entry with
\* candidates of its own element for both fields
C2_Witness ==
    /\ genPc = "done"
    /\ IsExample
    /\ Len(previewResult) = 2
    /\ \A i \in 1..2 : \A f \in AllFields : Len(previewResult[i].cands[f]) = 1

\* the candidates of field f of entry e that finalize can take
Usable(e, f) == {j \in DOMAIN e.collected[f] : e.collected[f][j].val.kind # "null"}

RulesOf(f) == {j \in DOMAIN mappings : mappings[j].field = f}

\* field f of entry e: its value, or <<>> when the entry does not have it
FieldOf(e, f) == IF f \in DOMAIN e.fields THEN <<e.fields[f]>> ELSE <<>>

Addressed(f) ==
    {nd \in NodesUnder(data, RootPath) :
        \E j \in RulesOf(f) : mappings[j].path = normalizePath(nd[1])}

FallbackCase == genPc = "done" /\ mappings # <<>> /\ lists = <<>>

Bool(b) == [kind |-> "bool", n |-> IF b THEN 1 ELSE 0, s |-> <<>>, keys |-> <<>>, vals |-> <<>>]

EmptyObj == Obj(<<>>, <<>>)

\* the characters \s matches among those a text can hold here
IsSpace(c) == c \in {" ", "\n"}

RECURSIVE FirstNonSpace(_, _)
\* the first position at or after i that holds no whitespace
FirstNonSpace(s, i) ==
    IF i <= Len(s) /\ IsSpace(s[i]) THEN FirstNonSpace(s, i + 1) ELSE i

RECURSIVE LastNonSpace(_, _)
\* the last position at or before i that holds no whitespace
LastNonSpace(s, i) ==
    IF i >= 1 /\ IsSpace(s[i]) THEN LastNonSpace(s, i - 1) ELSE i

\* s.trimStart()
trimStart(s) == SubSeq(s, FirstNonSpace(s, 1), Len(s))

\* s.trim()
trim(s) == SubSeq(s, FirstNonSpace(s, 1), LastNonSpace(s, Len(s)))

RECURSIVE IndexFrom(_, _, _)
IndexFrom(s, c, i) ==
    IF i > Len(s) THEN 0 ELSE IF s[i] = c THEN i ELSE IndexFrom(s, c, i + 1)

\* s.indexOf(c) + 1 (0 when c does not occur)
IndexOf(s, c) == IndexFrom(s, c, 1)

\* s.includes(c)
Includes(s, c) == IndexOf(s, c) # 0

\* s.startsWith(c) for one character
StartsWithChar(s, c) == s # <<>> /\ s[1] = c

\* s.endsWith(c) for one character
EndsWithChar(s, c) == s # <<>> /\ s[Len(s)] = c

RECURSIVE Repeat(_, _)
\* s.repeat(n)
Repeat(s, n) == IF n = 0 THEN <<>> ELSE s \o Repeat(s, n - 1)

\* value.toString() of an integer
NumberChars(n) == IF n < 0 THEN <<"-">> \o DecimalChars(0 - n) ELSE DecimalChars(n)

\* the escape JSON.stringify writes for one character of a string
EscapeChar(c) ==
    CASE c = "\"" -> <<"\\", "\"">>
      [] c = "\\" -> <<"\\", "\\">>
      [] c = "\n" -> <<"\\", "n">>
      [] OTHER -> <<c>>

RECURSIVE EscapeFrom(_, _)
EscapeFrom(s, i) ==
    IF i > Len(s) THEN <<>> ELSE EscapeChar(s[i]) \o EscapeFrom(s, i + 1)

\* JSON.stringify(s) of a string
StringifyString(s) == <<"\"">> \o EscapeFrom(s, 1) \o <<"\"">>

\* JSON.stringify(v) of a value that is not an object
StringifyPrimitive(v) ==
    CASE v.kind = "str" -> StringifyString(v.s)
      [] v.kind = "num" -> NumberChars(v.n)
      [] v.kind = "bool" -> IF v.n = 1 THEN <<"t", "r", "u", "e">> ELSE <<"f", "a", "l", "s", "e">>
      [] OTHER -> <<"n", "u", "l", "l">>

\* typeof v === 'object'
TypeofObject(v) == v.kind \in {"null", "obj", "arr"}

RECURSIVE JoinFrom(_, _, _)
\* parts.join(sep)
JoinFrom(parts, sep, i) ==
    IF i > Len(parts) THEN <<>>
    ELSE IF i = Len(parts) THEN parts[i]
    ELSE parts[i] \o sep \o JoinFrom(parts, sep, i + 1)

\* Object.keys(obj || {}) with obj[key]: a non-empty string has its indices
KeyedEntries(obj) ==
    IF obj.kind = "str"
    THEN [i \in 1..Len(obj.s) |-> <<DecimalChars(i - 1), Str(<<obj.s[i]>>)>>]
    ELSE ObjectEntries(obj)

\* '  '.repeat(level)
indent(level) == Repeat(<<" ", " ">>, level)

generalFields ==
    <<
       [key |-> <<"e", "n", "a", "b", "l", "e", "d">>,
        comment |-> <<"?", "?", "?", "?", "?", "?", "?", "?", "?", "?">>,
        options |-> <<"t", "r", "u", "e", " ", "|", " ", "f", "a", "l", "s", "e">>],
       [key |-> <<"t", "r", "a", "n", "s", "l", "a", "t", "e", "W", "h", "o", "l", "e", "P", "a", "g", "e">>,
        comment |-> <<"?", "?", "?", "?", "?", "?", "?", "?", "?", "?", "?", "?", "?", "?", "?", "?", "?", "?", "?", "?", "?">>,
        options |-> <<"t", "r", "u", "e", " ", "|", " ", "f", "a", "l", "s", "e">>],
       [key |-> <<"b", "i", "l", "i", "n", "g", "u", "a", "l", "M", "o", "d", "e">>,
        comment |-> <<"?", "?", "?", "?", "?", "?", "?", "?", "?", "?", "?", "?", "?", "?", "?", "?", "?", "?">>,
        options |-> <<"t", "r", "u", "e", " ", "|", " ", "f", "a", "l", "s", "e">>],
       [key |-> <<"a", "g", "g", "r", "e", "s", "s", "i", "v", "e", "M", "o", "d", "e">>,
        comment |-> <<"?", "?", "?", "?", "?", "?", "?", "?", "?", "A", "P", "I", "?", "?", "?", "?", "?", "?", "?", "?", "?", "?", "?", "?">>,
        options |-> <<"t", "r", "u", "e", " ", "|", " ", "f", "a", "l", "s", "e">>],
       [key |-> <<"m", "a", "t", "c", "h", "I", "n", "f", "l", "e", "c", "t", "i", "o", "n", "s">>,
        comment |-> <<"?", "?", "?", "?", "?", "?", "?", "?", "?", "?", "?", "?", "?", "?", "?">>,
        options |-> <<"t", "r", "u", "e", " ", "|", " ", "f", "a", "l", "s", "e">>],
       [key |-> <<"t", "t", "s", "S", "p", "e", "e", "d">>,
        comment |-> <<"?", "?", "?", "?", "?", "T", "T", "S", " ", "?", "?", "?", "?">>,
        options |-> <<"0", ".", "2", "5", " ", "-", " ", "3", ".", "0">>],
       [key |-> <<"b", "l", "a", "c", "k", "l", "i", "s", "t">>,
        comment |-> <<"?", "?", "?", "?", "?", "?", "?">>,
        options |-> <<>>],
       [key |-> <<"w", "h", "i", "t", "e", "l", "i", "s", "t">>,
        comment |-> <<"?", "?", "?", "?", "?", "?", "?">>,
        options |-> <<>>] >>

styleFields ==
    <<
       [key |-> <<"c", "o", "l", "o", "r">>,
        comment |-> <<"?", "?", "?", "?", " ", "(", "H", "e", "x", ")">>,
        options |-> <<>>],
       [key |-> <<"b", "a", "c", "k", "g", "r", "o", "u", "n", "d", "C", "o", "l", "o", "r">>,
        comment |-> <<"?", "?", "?", "?", " ", "(", "H", "e", "x", ")">>,
        options |-> <<>>],
       [key |-> <<"i", "s", "B", "o", "l", "d">>,
        comment |-> <<"?", "?", "?", "?">>,
        options |-> <<"t", "r", "u", "e", " ", "|", " ", "f", "a", "l", "s", "e">>],
       [key |-> <<"l", "a", "y", "o", "u", "t", "M", "o", "d", "e">>,
        comment |-> <<"?", "?", "?", "?">>,
        options |-> <<"h", "o", "r", "i", "z", "o", "n", "t", "a", "l", " ", "|", " ", "v", "e", "r", "t", "i", "c", "a", "l">>],
       [key |-> <<"d", "e", "n", "s", "i", "t", "y", "M", "o", "d", "e">>,
        comment |-> <<"?", "?", "?", "?">>,
        options |-> <<"c", "o", "u", "n", "t", " ", "|", " ", "p", "e", "r", "c", "e", "n", "t">>],
       [key |-> <<"d", "e", "n", "s", "i", "t", "y", "V", "a", "l", "u", "e">>,
        comment |-> <<"?", "?", "?">>,
        options |-> <<>>],
       [key |-> <<"o", "r", "i", "g", "i", "n", "a", "l", "T", "e", "x", "t">>,
        comment |-> <<"?", "?", "?", "?", "?", "?">>,
        options |-> <<>>],
       [key |-> <<"h", "o", "r", "i", "z", "o", "n", "t", "a", "l">>,
        comment |-> <<"?", "?", "?", "?", "?", "?", "?", "?">>,
        options |-> <<>>],
       [key |-> <<"v", "e", "r", "t", "i", "c", "a", "l">>,
        comment |-> <<"?", "?", "?", "?", "?", "?", "?", "?">>,
        options |-> <<>>] >>

scenarioFields ==
    <<
       [key |-> <<"i", "d">>,
        comment |-> <<"?", "?", " ", "I", "D">>,
        options |-> <<>>],
       [key |-> <<"n", "a", "m", "e">>,
        comment |-> <<"?", "?", "?", "?">>,
        options |-> <<>>],
       [key |-> <<"i", "s", "A", "c", "t", "i", "v", "e">>,
        comment |-> <<"?", "?", "?", "?">>,
        options |-> <<"t", "r", "u", "e", " ", "|", " ", "f", "a", "l", "s", "e">>] >>

interactionFields ==
    <<
       [key |-> <<"b", "u", "b", "b", "l", "e", "P", "o", "s", "i", "t", "i", "o", "n">>,
        comment |-> <<"?", "?", "?", "?">>,
        options |-> <<"t", "o", "p", " ", "|", " ", "b", "o", "t", "t", "o", "m", " ", "|", " ", "l", "e", "f", "t", " ", "|", " ", "r", "i", "g", "h", "t">>],
       [key |-> <<"a", "u", "t", "o", "P", "r", "o", "n", "o", "u", "n", "c", "e">>,
        comment |-> <<"?", "?", "?", "?">>,
        options |-> <<"t", "r", "u", "e", " ", "|", " ", "f", "a", "l", "s", "e">>],
       [key |-> <<"m", "a", "i", "n", "T", "r", "i", "g", "g", "e", "r">>,
        comment |-> <<"?", "?", "?", "?", "?", "?", "?">>,
        options |-> <<>>],
       [key |-> <<"q", "u", "i", "c", "k", "A", "d", "d", "T", "r", "i", "g", "g", "e", "r">>,
        comment |-> <<"?", "?", "?", "?", "?", "?", "?", "?">>,
        options |-> <<>>],
       [key |-> <<"o", "n", "l", "i", "n", "e", "D", "i", "c", "t", "U", "r", "l">>,
        comment |-> <<"?", "?", "?", "?", "?", "?", "?", "?">>,
        options |-> <<>>] >>

pageWidgetFields ==
    <<
       [key |-> <<"e", "n", "a", "b", "l", "e", "d">>,
        comment |-> <<"?", "?", "?", "?", "?">>,
        options |-> <<"t", "r", "u", "e", " ", "|", " ", "f", "a", "l", "s", "e">>],
       [key |-> <<"s", "h", "o", "w", "S", "e", "c", "t", "i", "o", "n", "s">>,
        comment |-> <<"?", "?", "?", "?", "?", "?", "?", " ", "(", "k", "n", "o", "w", "n", "/", "w", "a", "n", "t", "/", "l", "e", "a", "r", "n", "i", "n", "g", ")">>,
        options |-> <<>>],
       [key |-> <<"c", "a", "r", "d", "D", "i", "s", "p", "l", "a", "y">>,
        comment |-> <<"?", "?", "?", "?", "?", "?", "?", "?", "?">>,
        options |-> <<>>],
       [key |-> <<"s", "h", "o", "w", "P", "h", "o", "n", "e", "t", "i", "c">>,
        comment |-> <<"?", "?", "?", "?">>,
        options |-> <<"t", "r", "u", "e", " ", "|", " ", "f", "a", "l", "s", "e">>],
       [key |-> <<"s", "h", "o", "w", "M", "e", "a", "n", "i", "n", "g">>,
        comment |-> <<"?", "?", "?", "?">>,
        options |-> <<"t", "r", "u", "e", " ", "|", " ", "f", "a", "l", "s", "e">>],
       [key |-> <<"m", "o", "d", "a", "l", "P", "o", "s", "i", "t", "i", "o", "n">>,
        comment |-> <<"?", "?", "?", "?">>,
        options |-> <<>>],
       [key |-> <<"m", "o", "d", "a", "l", "S", "i", "z", "e">>,
        comment |-> <<"?", "?", "?", "?">>,
        options |-> <<>>] >>

engineFields ==
    <<
       [key |-> <<"i", "d">>,
        comment |-> <<"?", "?", "I", "D">>,
        options |-> <<>>],
       [key |-> <<"n", "a", "m", "e">>,
        comment |-> <<"?", "?", "?", "?">>,
        options |-> <<>>],
       [key |-> <<"t", "y", "p", "e">>,
        comment |-> <<"?", "?">>,
        options |-> <<"s", "t", "a", "n", "d", "a", "r", "d", " ", "|", " ", "a", "i">>],
       [key |-> <<"i", "s", "E", "n", "a", "b", "l", "e", "d">>,
        comment |-> <<"?", "?", "?", "?">>,
        options |-> <<"t", "r", "u", "e", " ", "|", " ", "f", "a", "l", "s", "e">>],
       [key |-> <<"a", "p", "i", "K", "e", "y">>,
        comment |-> <<"A", "P", "I", " ", "K", "e", "y", " ", "(", "?", "?", "?", "/", "?", "?", ")">>,
        options |-> <<>>],
       [key |-> <<"i", "s", "W", "e", "b", "S", "i", "m", "u", "l", "a", "t", "i", "o", "n">>,
        comment |-> <<"?", "?", "?", "?", "?", "?">>,
        options |-> <<"t", "r", "u", "e", " ", "|", " ", "f", "a", "l", "s", "e">>] >>

ankiFields ==
    <<
       [key |-> <<"e", "n", "a", "b", "l", "e", "d">>,
        comment |-> <<"?", "?", "?", "?">>,
        options |-> <<"t", "r", "u", "e", " ", "|", " ", "f", "a", "l", "s", "e">>],
       [key |-> <<"u", "r", "l">>,
        comment |-> <<"A", "n", "k", "i", "C", "o", "n", "n", "e", "c", "t", " ", "?", "?">>,
        options |-> <<>>],
       [key |-> <<"d", "e", "c", "k", "N", "a", "m", "e", "W", "a", "n", "t">>,
        comment |-> <<"?", "?", "?", "?">>,
        options |-> <<>>],
       [key |-> <<"d", "e", "c", "k", "N", "a", "m", "e", "L", "e", "a", "r", "n", "i", "n", "g">>,
        comment |-> <<"?", "?", "?", "?">>,
        options |-> <<>>],
       [key |-> <<"t", "e", "m", "p", "l", "a", "t", "e", "s">>,
        comment |-> <<"?", "?", "?", "?", " ", "(", "H", "T", "M", "L", ")">>,
        options |-> <<>>],
       [key |-> <<"s", "y", "n", "c", "S", "c", "o", "p", "e">>,
        comment |-> <<"?", "?", "?", "?">>,
        options |-> <<>>] >>

\* metadata.find(m => m.key === key)
FindMeta(metadata, key) ==
    IF \E i \in DOMAIN metadata : metadata[i].key = key
    THEN <<metadata[CHOOSE i \in DOMAIN metadata :
                /\ metadata[i].key = key
                /\ \A j \in 1..(i - 1) : metadata[j].key # key]>>
    ELSE <<>>

\* the comment line dumpObject writes above a key that has metadata
CommentLine(meta, level) ==
    indent(level) \o <<"#", " ">> \o meta.comment
        \o (IF meta.options # <<>> THEN <<" ", "(">> \o meta.options \o <<")">> ELSE <<>>)
        \o <<"\n">>

RECURSIVE dumpValue(_, _)
RECURSIVE dumpObject(_, _, _, _)
RECURSIVE DumpKeys(_, _, _, _, _)
RECURSIVE DumpItems(_, _, _)

dumpValue(value, level) ==
    CASE value.kind = "null" -> <<"n", "u", "l", "l">>
      [] value.kind = "bool" -> IF value.n = 1 THEN <<"t", "r", "u", "e">> ELSE <<"f", "a", "l", "s", "e">>
      [] value.kind = "num" -> NumberChars(value.n)
      [] value.kind = "str" -> StringifyString(value.s)
      [] value.kind = "arr" ->
            IF value.vals = <<>> THEN <<"[", "]">>
            ELSE IF \A i \in DOMAIN value.vals : ~TypeofObject(value.vals[i])
                 THEN <<"[">>
                        \o JoinFrom([i \in DOMAIN value.vals |->
                                        StringifyPrimitive(value.vals[i])], <<",", " ">>, 1)
                        \o <<"]">>
                 ELSE <<"\n">> \o DumpItems(value.vals, level, 1)
      [] OTHER -> <<"\n">> \o dumpObject(value, level + 1, <<>>, FALSE)

\* value.forEach(item => str += `${indent(level)}- ${dumpObject(...).trimStart()}`)
DumpItems(items, level, i) ==
    IF i > Len(items) THEN <<>>
    ELSE indent(level) \o <<"-", " ">>
            \o trimStart(dumpObject(items[i], level + 1, <<>>, TRUE))
            \o DumpItems(items, level, i + 1)

\* keys.forEach((key, index) => ...); index counts from 1 here
DumpKeys(es, level, metadata, isListItem, index) ==
    IF index > Len(es) THEN <<>>
    ELSE LET key == es[index][1]
             val == es[index][2]
             meta == FindMeta(metadata, key)
             prefix == IF isListItem /\ index = 1 THEN <<>> ELSE indent(level)
         IN (IF meta # <<>> /\ ~isListItem THEN CommentLine(meta[1], level) ELSE <<>>)
              \o prefix \o key \o <<":", " ">> \o dumpValue(val, level) \o <<"\n">>
              \o DumpKeys(es, level, metadata, isListItem, index + 1)

dumpObject(obj, level, metadata, isListItem) ==
    DumpKeys(KeyedEntries(obj), level, metadata, isListItem, 1)

\* new Date().toLocaleString(): one sample of the export time
ExportedAt == <<"1", "1", "/", "6", "/", "2", "0", "2", "6", ",", " ", "9", ":", "3", "0", ":", "0", "0", " ", "A", "M">>

sections ==
    << [key |-> <<"g", "e", "n", "e", "r", "a", "l">>, title |-> <<"1", ".", " ", "G", "e", "n", "e", "r", "a", "l", " ", "S", "e", "t", "t", "i", "n", "g", "s">>, meta |-> generalFields,
        isMap |-> FALSE, isArray |-> FALSE],
       [key |-> <<"s", "t", "y", "l", "e", "s">>, title |-> <<"2", ".", " ", "V", "i", "s", "u", "a", "l", " ", "S", "t", "y", "l", "e", "s">>, meta |-> styleFields,
        isMap |-> TRUE, isArray |-> FALSE],
       [key |-> <<"s", "c", "e", "n", "a", "r", "i", "o", "s">>, title |-> <<"3", ".", " ", "S", "c", "e", "n", "a", "r", "i", "o", "s">>, meta |-> scenarioFields,
        isMap |-> FALSE, isArray |-> TRUE],
       [key |-> <<"i", "n", "t", "e", "r", "a", "c", "t", "i", "o", "n">>, title |-> <<"4", ".", " ", "I", "n", "t", "e", "r", "a", "c", "t", "i", "o", "n">>, meta |-> interactionFields,
        isMap |-> FALSE, isArray |-> FALSE],
       [key |-> <<"p", "a", "g", "e", "W", "i", "d", "g", "e", "t">>, title |-> <<"5", ".", " ", "P", "a", "g", "e", " ", "W", "i", "d", "g", "e", "t">>, meta |-> pageWidgetFields,
        isMap |-> FALSE, isArray |-> FALSE],
       [key |-> <<"e", "n", "g", "i", "n", "e", "s">>, title |-> <<"6", ".", " ", "T", "r", "a", "n", "s", "l", "a", "t", "i", "o", "n", " ", "E", "n", "g", "i", "n", "e", "s">>, meta |-> engineFields,
        isMap |-> FALSE, isArray |-> TRUE],
       [key |-> <<"a", "n", "k", "i">>, title |-> <<"7", ".", " ", "A", "n", "k", "i", " ", "I", "n", "t", "e", "g", "r", "a", "t", "i", "o", "n">>, meta |-> ankiFields,
        isMap |-> FALSE, isArray |-> FALSE] >>

\* the three banner lines above a section
SectionBanner(sec) ==
    <<"\n">> \o <<"#", " ">> \o Repeat(<<"=">>, 50) \o <<"\n">>
        \o <<"#", " ">> \o sec.title \o <<"\n">>
        \o <<"#", " ">> \o Repeat(<<"=">>, 50) \o <<"\n">>

RECURSIVE StyleEntries(_, _, _)
\* Object.keys(val).forEach(subKey => yaml += `  "${subKey}":\n${dumpObject(...)}`)
StyleEntries(es, meta, i) ==
    IF i > Len(es) THEN <<>>
    ELSE <<" ", " ", "\"">> \o es[i][1] \o <<"\"", ":">> \o <<"\n">> \o dumpObject(es[i][2], 2, meta, FALSE)
            \o StyleEntries(es, meta, i + 1)

RECURSIVE SectionItems(_, _, _)
\* val.forEach(item => yaml += `  - ${dumpObject(item, 2, sec.meta, true).trimStart()}`)
SectionItems(items, meta, i) ==
    IF i > Len(items) THEN <<>>
    ELSE <<" ", " ", "-", " ">> \o trimStart(dumpObject(items[i], 2, meta, TRUE))
            \o SectionItems(items, meta, i + 1)

\* the body of sections.forEach for one section
SectionText(sec, config) ==
    LET val == Prop(config, sec.key)
    IN SectionBanner(sec) \o
       (IF sec.isMap
        THEN sec.key \o <<":", "\n">>
               \o (IF Truthy(val) THEN StyleEntries(KeyedEntries(val), sec.meta, 1) ELSE <<>>)
        ELSE IF sec.isArray
        THEN sec.key \o <<":", "\n">>
               \o (IF val.kind = "arr" /\ Len(val.vals) > 0
                   THEN SectionItems(val.vals, sec.meta, 1)
                   ELSE <<" ", " ", "[", "]">> \o <<"\n">>)
        ELSE sec.key \o <<":", " ">>
               \o (IF Truthy(val) THEN <<"\n">> \o dumpObject(val, 1, sec.meta, FALSE)
                   ELSE <<"{", "}">>)
               \o <<"\n">>)

RECURSIVE SectionsFrom(_, _)
SectionsFrom(config, i) ==
    IF i > Len(sections) THEN <<>>
    ELSE SectionText(sections[i], config) \o SectionsFrom(config, i + 1)

generateConfigYaml(config) ==
    <<"#", " ", "C", "o", "n", "t", "e", "x", "t", "L", "i", "n", "g", "o", " ", "?", "?", "?", "?">> \o <<"\n">> \o <<"#", " ", "E", "x", "p", "o", "r", "t", "e", "d", ":", " ">> \o ExportedAt \o <<"\n">>
        \o SectionsFrom(config, 1)

RECURSIVE LineEnd(_, _)
\* the position of the first "\n" at or after i, Len(s) + 1 when there is none
LineEnd(s, i) ==
    IF i > Len(s) \/ s[i] = "\n" THEN i ELSE LineEnd(s, i + 1)

RECURSIVE SplitFrom(_, _)
SplitFrom(s, i) ==
    LET j == LineEnd(s, i)
    IN <<SubSeq(s, i, j - 1)>> \o (IF j > Len(s) THEN <<>> ELSE SplitFrom(s, j + 1))

\* yaml.split('\n')
SplitLines(text) == SplitFrom(text, 1)

\* line.match(/^(\s*)/)[1].length
countIndent(line) == FirstNonSpace(line, 1) - 1

(***************************************************************************)
(* JSON.parse, for the texts parseValue hands it: a string literal or an   *)
(* array.  A parse result is [ok, v, pos]: pos is the position after the   *)
(* value; ok is FALSE where JSON.parse throws.                             *)
(***************************************************************************)
JsonFail == [ok |-> FALSE, v |-> Null, pos |-> 0]

RECURSIVE JsonStringBody(_, _, _)
\* the characters of a string literal from position i, after its opening quote
JsonStringBody(t, i, acc) ==
    IF i > Len(t) \/ t[i] = "\n" THEN JsonFail
    ELSE IF t[i] = "\"" THEN [ok |-> TRUE, v |-> Str(acc), pos |-> i + 1]
    ELSE IF t[i] = "\\"
         THEN IF i + 1 > Len(t) THEN JsonFail
              ELSE IF t[i + 1] \in {"\"", "\\", "/"}
                   THEN JsonStringBody(t, i + 2, Append(acc, t[i + 1]))
              ELSE IF t[i + 1] = "n" THEN JsonStringBody(t, i + 2, Append(acc, "\n"))
              ELSE JsonFail
    ELSE JsonStringBody(t, i + 1, Append(acc, t[i]))

\* t.startsWith(word, i)
HasWordAt(t, i, word) ==
    i + Len(word) - 1 <= Len(t) /\ SubSeq(t, i, i + Len(word) - 1) = word

RECURSIVE DigitsValue(_, _, _)
\* the value of the digits t[i..j-1]
DigitsValue(t, i, j) ==
    IF j <= i THEN 0
    ELSE 10 * DigitsValue(t, i, j - 1)
            + ((CHOOSE d \in DOMAIN Digits : Digits[d] = t[j - 1]) - 1)

\* an integer literal at position i
JsonNumber(t, i) ==
    LET neg == i <= Len(t) /\ t[i] = "-"
        from == IF neg THEN i + 1 ELSE i
        to == SkipDigits(t, from)
    IN IF to = from THEN JsonFail
       ELSE [ok |-> TRUE,
             v |-> Num(IF neg THEN 0 - DigitsValue(t, from, to) ELSE DigitsValue(t, from, to)),
             pos |-> to]

RECURSIVE JsonValue(_, _)
RECURSIVE JsonElements(_, _, _)

\* a JSON value at position i, leading whitespace skipped
JsonValue(t, i0) ==
    LET i == FirstNonSpace(t, i0)
    IN IF i > Len(t) THEN JsonFail
       ELSE IF t[i] = "\"" THEN JsonStringBody(t, i + 1, <<>>)
       ELSE IF t[i] = "[" THEN
            LET k == FirstNonSpace(t, i + 1)
            IN IF k <= Len(t) /\ t[k] = "]"
               THEN [ok |-> TRUE, v |-> Arr(<<>>), pos |-> k + 1]
               ELSE JsonElements(t, i + 1, <<>>)
       ELSE IF HasWordAt(t, i, <<"t", "r", "u", "e">>) THEN [ok |-> TRUE, v |-> Bool(TRUE), pos |-> i + 4]
       ELSE IF HasWordAt(t, i, <<"f", "a", "l", "s", "e">>) THEN [ok |-> TRUE, v |-> Bool(FALSE), pos |-> i + 5]
       ELSE IF HasWordAt(t, i, <<"n", "u", "l", "l">>) THEN [ok |-> TRUE, v |-> Null, pos |-> i + 4]
       ELSE JsonNumber(t, i)

\* the elements of an array from position i, up to its closing bracket
JsonElements(t, i, acc) ==
    LET e == JsonValue(t, i)
    IN IF ~e.ok THEN JsonFail
       ELSE LET k == FirstNonSpace(t, e.pos)
            IN IF k > Len(t) THEN JsonFail
               ELSE IF t[k] = "]" THEN [ok |-> TRUE, v |-> Arr(Append(acc, e.v)), pos |-> k + 1]
               ELSE IF t[k] = "," THEN JsonElements(t, k + 1, Append(acc, e.v))
               ELSE JsonFail

\* JSON.parse(t): ok is FALSE where it throws
JsonParse(t) ==
    LET r == JsonValue(t, 1)
    IN IF r.ok /\ FirstNonSpace(t, r.pos) > Len(t) THEN r ELSE JsonFail

\* Number(valStr) is not NaN, for a text with no whitespace around it
IsNumeric(valStr) ==
    LET from == IF StartsWithChar(valStr, "-") THEN 2 ELSE 1
    IN from <= Len(valStr) /\ SkipDigits(valStr, from) = Len(valStr) + 1

RECURSIVE EscapeQuotesFrom(_, _)
\* s.replace(/"/g, '\\"')
EscapeQuotesFrom(s, i) ==
    IF i > Len(s) THEN <<>>
    ELSE (IF s[i] = "\"" THEN <<"\\", "\"">> ELSE <<s[i]>>) \o EscapeQuotesFrom(s, i + 1)

IsQuote(c) == c \in {"\"", "'"}

\* valStr.replace(/^["']|["']$/g, '')
StripOuterQuotes(s) ==
    LET a == IF s # <<>> /\ IsQuote(s[1]) THEN 2 ELSE 1
        b == IF Len(s) >= a /\ IsQuote(s[Len(s)]) THEN Len(s) - 1 ELSE Len(s)
    IN SubSeq(s, a, b)

\* key.replace(/['"]/g, '')
StripQuotes(s) == SelectSeq(s, LAMBDA c : ~IsQuote(c))

parseValue(valStr0) ==
    LET trimmed == trim(valStr0)
        commentIdx == IndexOf(trimmed, "#")
        valStr == IF trimmed # <<>> /\ ~IsQuote(trimmed[1]) /\ commentIdx > 0
                  THEN trim(SubSeq(trimmed, 1, commentIdx - 1))
                  ELSE trimmed
    IN IF trimmed = <<>> THEN Null
       ELSE IF valStr # <<>> /\ IsQuote(valStr[1]) THEN
            LET normal == IF valStr[1] = "'"
                          THEN <<"\"">> \o EscapeQuotesFrom(SubSeq(valStr, 2, Len(valStr) - 1), 1)
                                   \o <<"\"">>
                          ELSE valStr
                p == JsonParse(normal)
            IN IF p.ok THEN p.v ELSE Str(StripOuterQuotes(normal))
       ELSE IF valStr = <<"t", "r", "u", "e">> THEN Bool(TRUE)
       ELSE IF valStr = <<"f", "a", "l", "s", "e">> THEN Bool(FALSE)
       ELSE IF valStr = <<"n", "u", "l", "l">> THEN Null
       ELSE IF valStr = <<"[", "]">> THEN Arr(<<>>)
       ELSE IF valStr = <<"{", "}">> THEN EmptyObj
       ELSE IF StartsWithChar(valStr, "[") /\ EndsWithChar(valStr, "]") /\ JsonParse(valStr).ok
            THEN JsonParse(valStr).v
       ELSE IF IsNumeric(valStr) THEN JsonNumber(valStr, 1).v
       ELSE Str(valStr)

\* obj[key] = val
SetProp(obj, key, val) ==
    IF \E i \in DOMAIN obj.keys : obj.keys[i] = key
    THEN Obj(obj.keys, [i \in DOMAIN obj.keys |-> IF obj.keys[i] = key THEN val ELSE obj.vals[i]])
    ELSE Obj(Append(obj.keys, key), Append(obj.vals, val))

RECURSIVE AssignFrom(_, _, _)
AssignFrom(target, es, i) ==
    IF i > Len(es) THEN target
    ELSE AssignFrom(SetProp(target, es[i][1], es[i][2]), es, i + 1)

\* Object.assign(target, source)
ObjectAssign(target, source) == AssignFrom(target, KeyedEntries(source), 1)

RECURSIVE parseBlock(_, _, _)
RECURSIVE ParseLoop(_, _, _, _, _, _)

\* the while loop of parseBlock from line cur (counted from 1); the result
\* is [v |-> the block's value, cur |-> currentLine when it returns]
ParseLoop(lines, cur, minIndent, result, listResult, isListMode) ==
    LET done == [v |-> IF isListMode THEN Arr(listResult) ELSE result, cur |-> cur]
    IN IF cur > Len(lines) THEN done
       ELSE
       LET line == lines[cur]
           content == trim(line)
           indentLevel == countIndent(line)
       IN IF content = <<>> \/ content[1] = "#"
          THEN ParseLoop(lines, cur + 1, minIndent, result, listResult, isListMode)
          ELSE IF indentLevel < minIndent THEN done
          ELSE IF content[1] = "-" THEN
               LET valuePart == trim(SubSeq(content, 2, Len(content)))
               IN IF valuePart = <<>>
                  THEN LET item == parseBlock(lines, cur + 1, indentLevel + 1)
                       IN ParseLoop(lines, item.cur, minIndent, result,
                                    Append(listResult, item.v), TRUE)
                  ELSE IF Includes(valuePart, ":") /\ valuePart[1] \notin {"\"", "'", "{"}
                  THEN LET keyColonIdx == IndexOf(valuePart, ":")
                           key == trim(SubSeq(valuePart, 1, keyColonIdx - 1))
                           valStr == trim(SubSeq(valuePart, keyColonIdx + 1, Len(valuePart)))
                           first == IF valStr # <<>>
                                    THEN [v |-> parseValue(valStr), cur |-> cur + 1]
                                    ELSE parseBlock(lines, cur + 1, indentLevel + 2)
                           rest == parseBlock(lines, first.cur, indentLevel + 1)
                           objItem == ObjectAssign(SetProp(EmptyObj, key, first.v), rest.v)
                       IN ParseLoop(lines, rest.cur, minIndent, result,
                                    Append(listResult, objItem), TRUE)
                  ELSE ParseLoop(lines, cur + 1, minIndent, result,
                                 Append(listResult, parseValue(valuePart)), TRUE)
          ELSE IF Includes(content, ":") THEN
               LET colonIdx == IndexOf(content, ":")
                   key == StripQuotes(trim(SubSeq(content, 1, colonIdx - 1)))
                   valStr == trim(SubSeq(content, colonIdx + 1, Len(content)))
                   value == IF valStr # <<>>
                            THEN [v |-> parseValue(valStr), cur |-> cur + 1]
                            ELSE parseBlock(lines, cur + 1, indentLevel + 1)
               IN ParseLoop(lines, value.cur, minIndent, SetProp(result, key, value.v),
                            listResult, isListMode)
          ELSE ParseLoop(lines, cur + 1, minIndent, result, listResult, isListMode)

parseBlock(lines, currentLine, minIndent) ==
    ParseLoop(lines, currentLine, minIndent, EmptyObj, <<>>, FALSE)

parseConfigYaml(text) == parseBlock(SplitLines(text), 1, 0).v

(***************************************************************************)
(* Configurations to export and import                                     *)
(***************************************************************************)
MaxStrLen == 2

\* the characters of the string values: a letter, the comment mark, both
\* escapes of JSON.stringify, and the characters the parser splits on
Alphabet == {"a", "#", "\"", "\n", "\\", ":", " ", "-"}

StringValues == {Str(s) : s \in SeqsUpTo(Alphabet, MaxStrLen)}

PrimitiveValues ==
    {Null, Bool(TRUE), Bool(FALSE), Num(0), Num(12), Num(0 - 3)} \cup StringValues

ArrayValues ==
    {Arr(<<>>), Arr(<<Num(1), Num(2)>>), Arr(<<Str(<<"a">>), Bool(TRUE)>>)}
        \cup {Arr(<<Str(<<"a">>), v>>) : v \in {Str(s) : s \in SeqsUpTo(Alphabet, 1)}}
        \cup {Arr(<<Obj(<<<<"x">>>>, <<Num(1)>>)>>),
              Arr(<<Obj(<<<<"x">>, <<"y">>>>, <<Num(1), Str(<<"a">>)>>), Obj(<<<<"x">>>>, <<Num(3)>>)>>)}

ObjectValues ==
    {EmptyObj,
     Obj(<<<<"x">>>>, <<Num(1)>>),
     Obj(<<<<"x">>, <<"y">>>>, <<Obj(<<<<"z">>>>, <<Str(<<"a">>)>>), Bool(FALSE)>>)}

ProbeValues == PrimitiveValues \cup ArrayValues \cup ObjectValues

Positions == {"general", "style", "itemFirst", "itemRest", "nested"}

EngineLists == {Arr(<<>>), Arr(<<Obj(<<<<"i", "d">>, <<"i", "s", "E", "n", "a", "b", "l", "e", "d">>>>, <<Str(<<"g">>), Bool(TRUE)>>)>>)}

\* a full configuration with value v at position pos
ConfigWith(pos, v, engines) ==
    LET at(p, other) == IF pos = p THEN v ELSE other
    IN Obj(<<<<"g", "e", "n", "e", "r", "a", "l">>, <<"s", "t", "y", "l", "e", "s">>, <<"s", "c", "e", "n", "a", "r", "i", "o", "s">>, <<"i", "n", "t", "e", "r", "a", "c", "t", "i", "o", "n">>, <<"p", "a", "g", "e", "W", "i", "d", "g", "e", "t">>,
             <<"e", "n", "g", "i", "n", "e", "s">>, <<"a", "n", "k", "i">>>>,
           << Obj(<<<<"e", "n", "a", "b", "l", "e", "d">>, <<"b", "l", "a", "c", "k", "l", "i", "s", "t">>>>, <<Bool(TRUE), at("general", Arr(<<>>))>>),
              Obj(<<<<"w", "a", "n", "t">>>>,
                  <<Obj(<<<<"c", "o", "l", "o", "r">>, <<"i", "s", "B", "o", "l", "d">>>>, <<at("style", Str(<<"r", "e", "d">>)), Bool(FALSE)>>)>>),
              Arr(<<Obj(<<<<"i", "d">>, <<"n", "a", "m", "e">>>>,
                        <<at("itemFirst", Str(<<"1">>)), at("itemRest", Str(<<"a">>))>>)>>),
              Obj(<<<<"a", "u", "t", "o", "P", "r", "o", "n", "o", "u", "n", "c", "e">>>>, <<Bool(TRUE)>>),
              Obj(<<<<"e", "n", "a", "b", "l", "e", "d">>>>, <<Bool(TRUE)>>),
              engines,
              Obj(<<<<"e", "n", "a", "b", "l", "e", "d">>, <<"t", "e", "m", "p", "l", "a", "t", "e", "s">>>>,
                  <<Bool(FALSE), Obj(<<<<"f", "r", "o", "n", "t">>>>, <<at("nested", Str(<<"a">>))>>)>>) >>)

Configs == {ConfigWith(pos, v, e) : pos \in Positions, v \in ProbeValues, e \in EngineLists}

InitCodec ==
    /\ fullConfig \in Configs
    /\ yaml = <<>>
    /\ parsed = <<>>
    /\ codecPc = "config"
    /\ ScanIdle
    /\ DensityIdle
    /\ GenIdle
    /\ PathIdle
    /\ BatchIdle
    /\ ImportIdle
    /\ DeepIdle
    /\ SpliceIdle
    /\ RulesIdle
    /\ CaptureIdle

\* the export action: generateConfigYaml(fullConfig)
Export ==
    /\ codecPc = "config"
    /\ yaml' = generateConfigYaml(fullConfig)
    /\ codecPc' = "exported"
    /\ UNCHANGED <<fullConfig, parsed>>
    /\ UNCHANGED <<scanVars, densVars, genVars, pathVars, batchVars, importVars, deepVars, spliceVars, rulesVars, captureVars>>

\* the import action: parseConfigYaml(yaml)
Import ==
    /\ codecPc = "exported"
    /\ parsed' = parseConfigYaml(yaml)
    /\ codecPc' = "parsed"
    /\ UNCHANGED <<fullConfig, yaml>>
    /\ UNCHANGED <<scanVars, densVars, genVars, pathVars, batchVars, importVars, deepVars, spliceVars, rulesVars, captureVars>>

NextCodec == Export \/ Import

SpecCodec == InitCodec /\ [][NextCodec]_vars

RECURSIVE DeepEqual(_, _)
\* deep equality of two values: the order of an object's keys does not count
DeepEqual(a, b) ==
    /\ a.kind = b.kind
    /\ CASE a.kind \in {"num", "bool"} -> a.n = b.n
         [] a.kind = "str" -> a.s = b.s
         [] a.kind = "arr" ->
               /\ Len(a.vals) = Len(b.vals)
               /\ \A i \in DOMAIN a.vals : DeepEqual(a.vals[i], b.vals[i])
         [] a.kind = "obj" ->
               /\ Range(a.keys) = Range(b.keys)
               /\ Len(a.keys) = Len(b.keys)
               /\ \A i \in DOMAIN a.keys : DeepEqual(a.vals[i], Prop(b, a.keys[i]))
         [] OTHER -> TRUE

\* C1: once a configuration tree of the supported shapes has been exported
\* and the text imported again, the imported tree is deep-equal to the
\* exported one, also when a string value holds quotes, newlines or '#'
C1_RoundTrip == codecPc = "parsed" => DeepEqual(parsed, fullConfig)

(***************************************************************************)
(* normalizePath on its own: a path is normalized, and the result          *)
(* normalized again                                                        *)
(***************************************************************************)
MaxPathLen == 5

PathAlphabet == {".", "3", "a"}

ExamplePath == <<"r", "o", "o", "t", ".", "i", "t", "e", "m", "s", ".", "3", ".", "n", "a", "m", "e">>

Paths ==
    SeqsUpTo(PathAlphabet, MaxPathLen) \cup {ExamplePath, <<"r", "o", "o", "t", ".", "i", "t", "e", "m", "s", ".", "3", "a", "b", "c">>}

InitPath ==
    /\ rawPath \in Paths
    /\ normOnce = <<>>
    /\ normTwice = <<>>
    /\ pathPc = "raw"
    /\ ScanIdle
    /\ DensityIdle
    /\ GenIdle
    /\ CodecIdle
    /\ BatchIdle
    /\ ImportIdle
    /\ DeepIdle
    /\ SpliceIdle
    /\ RulesIdle
    /\ CaptureIdle

\* normalizePath(path)
NormalizeOnce ==
    /\ pathPc = "raw"
    /\ normOnce' = normalizePath(rawPath)
    /\ pathPc' = "once"
    /\ UNCHANGED <<rawPath, normTwice>>
    /\ UNCHANGED <<scanVars, densVars, genVars, codecVars, batchVars, importVars, deepVars, spliceVars, rulesVars, captureVars>>

\* normalizePath of the normalized path
NormalizeAgain ==
    /\ pathPc = "once"
    /\ normTwice' = normalizePath(normOnce)
    /\ pathPc' = "twice"
    /\ UNCHANGED <<rawPath, normOnce>>
    /\ UNCHANGED <<scanVars, densVars, genVars, codecVars, batchVars, importVars, deepVars, spliceVars, rulesVars, captureVars>>

NextPath == NormalizeOnce \/ NormalizeAgain

SpecPath == InitPath /\ [][NextPath]_vars

\* C15: normalizing a normalized path changes nothing:
\* normalizePath(normalizePath(p)) = normalizePath(p).
C15_Idempotent == pathPc = "twice" => normTwice = normOnce

\* a path that lost an index and whose normal form still holds a '.' and a
\* digit has been normalized twice
C15_Witness ==
    /\ pathPc = "twice"
    /\ normOnce # rawPath
    /\ "." \in Range(normOnce)
    /\ "3" \in Range(normOnce)

\* a segment of one or more digits
IsIndexSegment(seg) == seg # <<>> /\ \A i \in DOMAIN seg : IsDigit(seg[i])

RECURSIVE JoinSegments(_)
\* the segments joined by '.', the index segments after the first left out
JoinSegments(segs) ==
    IF Len(segs) <= 1 THEN (IF segs = <<>> THEN <<>> ELSE segs[1])
    ELSE LET front == JoinSegments(SubSeq(segs, 1, Len(segs) - 1))
             seg == segs[Len(segs)]
         IN  IF IsIndexSegment(seg) THEN front ELSE front \o <<".">> \o seg

\* C16: normalizePath removes exactly the segments that are pure array
\* indices (a '.' followed by digits only, up to the next '.' or the end) and
\* leaves every other segment as it is, so '3abc' stays, and
\* normalizePath('root.items.3.name') = 'root.items.name'.
C16_PureIndexOnly ==
    pathPc \in {"once", "twice"} =>
        /\ normOnce = JoinSegments(Segments(rawPath))
        /\ rawPath = ExamplePath => normOnce = <<"r", "o", "o", "t", ".", "i", "t", "e", "m", "s", ".", "n", "a", "m", "e">>

(***************************************************************************)
(* Batch generation: the loop of runGeneration over the words of a run.    *)
(* The handler is asynchronous: each action below is the code between two  *)
(* awaits.  The position in the handler is kept in genPc.                  *)
(***************************************************************************)
MaxWords == 3       \* imported words

WordNames == {"w1", "w2"}

\* the documents the dictionary API answers with
BatchDocs == {DocOf(Arr([i \in 1..n |-> Item("flat", i)])) : n \in 0..MaxItems}

InitBatch ==
    /\ importedWords \in SeqsUpTo(WordNames, MaxWords)
    /\ words = <<>>
    /\ wordIdx = 0
    /\ allFinalResults = <<>>
    /\ isGenerating = FALSE
    /\ toasts = <<>>
    /\ fetched = <<>>
    /\ fetchLog = <<>>
    /\ mappings = ExampleMappings
    /\ lists = <<PathOf(<<Ka, Klist>>)>>
    /\ data = <<>>
    /\ previewResult = <<>>
    /\ genPc = "queued"
    /\ ScanIdle
    /\ DensityIdle
    /\ CodecIdle
    /\ PathIdle
    /\ ImportIdle
    /\ DeepIdle
    /\ SpliceIdle
    /\ RulesIdle
    /\ CaptureIdle

\* const entry = { text: word }: the entries of one word carry that word
WithWord(entries, word) == [k \in DOMAIN entries |-> [entries[k] EXCEPT !.text = word]]

\* the entries of a word put in front of the result list
PushAllFront(results, wordFinalEntries) == wordFinalEntries \o results

\* allFinalResults.push(...wordFinalEntries)
PushAll(results, wordFinalEntries) == results \o wordFinalEntries

\* catch (e) { showToast(..., 'error') } finally { setIsGenerating(false) }
CatchAndFinally ==
    /\ toasts' = Append(toasts, "error")
    /\ isGenerating' = FALSE
    /\ genPc' = "failed"
    /\ UNCHANGED <<importedWords, words, wordIdx, allFinalResults, fetched, fetchLog>>
    /\ UNCHANGED <<mappings, lists, data, previewResult>>

\* runGeneration(isFull) up to its first await: the fetch of the first word
StartBatch ==
    /\ genPc = "queued"
    /\ \E isFull \in BOOLEAN :
        LET ws == IF isFull \/ importedWords = <<>> THEN importedWords
                  ELSE SubSeq(importedWords, 1, 1)
        IN  /\ words' = ws
            /\ IF ws = <<>>
               THEN /\ toasts' = Append(toasts, "warning")
                    /\ genPc' = "empty"
                    /\ UNCHANGED <<wordIdx, allFinalResults, isGenerating, fetchLog>>
               ELSE /\ isGenerating' = TRUE
                    /\ allFinalResults' = <<>>
                    /\ wordIdx' = 1
                    /\ fetchLog' = <<[ev |-> "fetch", i |-> 1]>>
                    /\ genPc' = "fetching"
                    /\ UNCHANGED toasts
    /\ UNCHANGED <<importedWords, fetched>>
    /\ UNCHANGED <<mappings, lists, data, previewResult>>
    /\ UNCHANGED <<scanVars, densVars, codecVars, pathVars, importVars, deepVars, spliceVars, rulesVars, captureVars>>

\* await fetch(url) settles: with a response, or with a rejection
FetchSettles ==
    /\ genPc = "fetching"
    /\ \E ok \in BOOLEAN :
        IF ok
        THEN /\ genPc' = "parsing"
             /\ UNCHANGED batchVars
             /\ UNCHANGED <<mappings, lists, data, previewResult>>
        ELSE CatchAndFinally
    /\ UNCHANGED <<scanVars, densVars, codecVars, pathVars, importVars, deepVars, spliceVars, rulesVars, captureVars>>

\* await res.json() settles: with the document, or with a rejection.  With
\* the document the word's entries are generated and pushed, and the loop
\* goes on to the fetch of the next word or, after the last, to
\* setPreviewResult.
JsonSettles ==
    /\ genPc = "parsing"
    /\ \E ok \in BOOLEAN, doc \in BatchDocs :
        IF ok
        THEN LET wordFinalEntries == WithWord(GenerateWord(doc), words[wordIdx])
                 results == PushAll(allFinalResults, wordFinalEntries)
                 completed == Append(fetchLog, [ev |-> "entries", i |-> wordIdx])
             IN  /\ data' = doc
                 /\ fetched' = Append(fetched, doc)
                 /\ allFinalResults' = results
                 /\ IF wordIdx < Len(words)
                    THEN /\ wordIdx' = wordIdx + 1
                         /\ fetchLog' = Append(completed, [ev |-> "fetch", i |-> wordIdx + 1])
                         /\ genPc' = "fetching"
                         /\ UNCHANGED <<previewResult, toasts, isGenerating>>
                    ELSE /\ previewResult' = results
                         /\ toasts' = Append(toasts, "success")
                         /\ isGenerating' = FALSE
                         /\ fetchLog' = completed
                         /\ genPc' = "finished"
                         /\ UNCHANGED wordIdx
                 /\ UNCHANGED <<importedWords, words>>
                 /\ UNCHANGED <<mappings, lists>>
        ELSE CatchAndFinally
    /\ UNCHANGED <<scanVars, densVars, codecVars, pathVars, importVars, deepVars, spliceVars, rulesVars, captureVars>>

NextBatch == StartBatch \/ FetchSettles \/ JsonSettles

SpecBatch == InitBatch /\ [][NextBatch]_vars

RECURSIVE EntriesOfWords(_)
\* the entry lists of the first n words of the run, one after another
EntriesOfWords(n) ==
    IF n = 0 THEN <<>>
    ELSE EntriesOfWords(n - 1) \o WithWord(GenerateWord(fetched[n]), words[n])

\* C17: the words of a run are processed one after another in input order:
\* the fetch of word i+1 is started only after the entries of word i are
\* complete, and the result list is the per-word entry lists one after
\* another in the order of the words.
C17_BatchOrder ==
    /\ \A k \in DOMAIN fetchLog :
          fetchLog[k] = [ev |-> IF k % 2 = 1 THEN "fetch" ELSE "entries",
                         i |-> (k + 1) \div 2]
    /\ genPc \in {"fetching", "parsing", "finished", "failed"} =>
          allFinalResults = EntriesOfWords(Len(fetched))
    /\ genPc = "finished" =>
          /\ Len(fetched) = Len(words)
          /\ previewResult = EntriesOfWords(Len(words))

\* a run over several words, two of them different and with entries, finished
C17_Witness ==
    /\ genPc = "finished"
    /\ Len(words) = MaxWords
    /\ words[1] # words[2]
    /\ \A i \in DOMAIN fetched : GenerateWord(fetched[i]) # <<>>
    /\ Len(previewResult) > Len(words)

\* C18: when the fetch or the JSON parse of one word fails, one failure
\* notice is shown, the remaining words of the run are still fetched, and
\* the entries of the words completed before the failure are in the result.
C18_FailureIsolation ==
    genPc = "failed" =>
        /\ Len(SelectSeq(toasts, LAMBDA t : t = "error")) = 1
        /\ \A i \in DOMAIN words : \E k \in DOMAIN fetchLog : fetchLog[k] = [ev |-> "fetch", i |-> i]
        /\ previewResult = allFinalResults

(***************************************************************************)
(* Configuration import: ConfigManagementSection.handleImportFile and       *)
(* App.handleConfigImport.  The default objects are imported from          *)
(* ./constants (App.tsx:12): DefaultSection and DefaultStyles stand for    *)
(* them, and the state before the import differs from them in every        *)
(* section.                                                                *)
(***************************************************************************)
MaxFileLines == 2   \* lines of an imported file

Undefined == [kind |-> "undef", n |-> 0, s |-> <<>>, keys |-> <<>>, vals |-> <<>>]

\* obj[key]
GetProp(obj, key) ==
    IF obj.kind = "obj" /\ \E i \in DOMAIN obj.keys : obj.keys[i] = key
    THEN obj.vals[CHOOSE i \in DOMAIN obj.keys : obj.keys[i] = key]
    ELSE Undefined

\* Object.keys(v) with the values: of an object, an array or a string
OwnEntries(v) ==
    IF v.kind = "str" THEN [i \in 1..Len(v.s) |-> <<DecimalChars(i - 1), Str(<<v.s[i]>>)>>]
    ELSE ObjectEntries(v)

RECURSIVE deepMergeConfig(_, _)
RECURSIVE MergeDefaultKeys(_, _, _, _)
RECURSIVE MergeCustomKeys(_, _, _)
\* deepMergeConfig(defaultConfig, importedConfig)
deepMergeConfig(defaultConfig, importedConfig) ==
    IF importedConfig.kind \in {"undef", "null"} THEN defaultConfig
    ELSE IF (defaultConfig.kind = "arr") # (importedConfig.kind = "arr") THEN defaultConfig
    ELSE IF defaultConfig.kind = "arr" THEN importedConfig
    ELSE IF defaultConfig.kind = "obj"
         THEN MergeCustomKeys(MergeDefaultKeys(defaultConfig, importedConfig, 1, defaultConfig),
                              OwnEntries(importedConfig), 1)
         ELSE importedConfig

\* Object.keys(defaultConfig).forEach(key => ...)
MergeDefaultKeys(defaultConfig, importedConfig, i, result) ==
    IF i > Len(defaultConfig.keys) \/ result.kind # "obj" THEN result
    ELSE LET key == defaultConfig.keys[i]
             defVal == defaultConfig.vals[i]
             impVal == GetProp(importedConfig, key)
         IN  MergeDefaultKeys(defaultConfig, importedConfig, i + 1,
                 IF defVal.kind = "obj" THEN SetProp(result, key, deepMergeConfig(defVal, impVal))
                 ELSE IF impVal # Undefined THEN SetProp(result, key, impVal)
                 ELSE result)

\* Object.keys(importedConfig).forEach(key => { if (result[key] === undefined) ... })
MergeCustomKeys(result, es, i) ==
    IF i > Len(es) \/ result.kind # "obj" THEN result
    ELSE MergeCustomKeys(IF GetProp(result, es[i][1]) = Undefined
                         THEN SetProp(result, es[i][1], es[i][2])
                         ELSE result, es, i + 1)

Kgeneral == <<"g", "e", "n", "e", "r", "a", "l">>
Kinteraction == <<"i", "n", "t", "e", "r", "a", "c", "t", "i", "o", "n">>
KpageWidget == <<"p", "a", "g", "e", "W", "i", "d", "g", "e", "t">>
Kanki == <<"a", "n", "k", "i">>
Kscenarios == <<"s", "c", "e", "n", "a", "r", "i", "o", "s">>
Kengines == <<"e", "n", "g", "i", "n", "e", "s">>
Kstyles == <<"s", "t", "y", "l", "e", "s">>

\* stands for DEFAULT_AUTO_TRANSLATE, DEFAULT_WORD_INTERACTION,
\* DEFAULT_PAGE_WIDGET, DEFAULT_ANKI_CONFIG and DEFAULT_STYLE
DefaultSection == Obj(<<Ka, Ko>>, <<Num(1), Obj(<<Ky>>, <<Num(1)>>)>>)

\* stands for DEFAULT_STYLES
DefaultStyles == Obj(<<Kx>>, <<DefaultSection>>)

RECURSIVE MergeStyles(_, _, _)
\* Object.keys(newConfig.styles).forEach(key => nextStyles[key] = deepMergeConfig(DEFAULT_STYLE, ...))
MergeStyles(nextStyles, es, i) ==
    IF i > Len(es) \/ nextStyles.kind # "obj" THEN nextStyles
    ELSE MergeStyles(SetProp(nextStyles, es[i][1], deepMergeConfig(DefaultSection, es[i][2])),
                     es, i + 1)

\* handleConfigImport(newConfig): the configuration it sets and saves
handleConfigImport(newConfig, current) ==
    LET nextAutoTranslate == deepMergeConfig(DefaultSection, GetProp(newConfig, Kgeneral))
        nextInteraction == deepMergeConfig(DefaultSection, GetProp(newConfig, Kinteraction))
        nextPageWidget == deepMergeConfig(DefaultSection, GetProp(newConfig, KpageWidget))
        nextAnki == deepMergeConfig(DefaultSection, GetProp(newConfig, Kanki))
        nextScenarios == IF GetProp(newConfig, Kscenarios).kind = "arr"
                         THEN GetProp(newConfig, Kscenarios) ELSE GetProp(current, Kscenarios)
        nextEngines == IF GetProp(newConfig, Kengines).kind = "arr"
                       THEN GetProp(newConfig, Kengines) ELSE GetProp(current, Kengines)
        nextStyles == IF Truthy(GetProp(newConfig, Kstyles))
                      THEN MergeStyles(DefaultStyles, OwnEntries(GetProp(newConfig, Kstyles)), 1)
                      ELSE DefaultStyles
    IN  Obj(<<Kgeneral, Kinteraction, KpageWidget, Kanki, Kscenarios, Kengines, Kstyles>>,
            <<nextAutoTranslate, nextInteraction, nextPageWidget, nextAnki,
              nextScenarios, nextEngines, nextStyles>>)

\* the basic validation that lets every parsed value pass
HasValidKeyAlways(value) == TRUE

validKeys == {Kgeneral, Kstyles, Kscenarios, Kengines}

\* parsed && typeof parsed === 'object' && Object.keys(parsed).some(k => validKeys.includes(k))
HasValidKey(value) ==
    /\ value.kind \in {"obj", "arr"}
    /\ \E i \in DOMAIN OwnEntries(value) : OwnEntries(value)[i][1] \in validKeys

\* ---- inputs of the import
\* the configuration the user has before the import
UserSection == Obj(<<Ka, Ko>>, <<Num(2), Obj(<<Ky>>, <<Num(2)>>)>>)

UserConfig ==
    Obj(<<Kgeneral, Kinteraction, KpageWidget, Kanki, Kscenarios, Kengines, Kstyles>>,
        <<UserSection, UserSection, UserSection, UserSection,
          Arr(<<Num(2)>>), Arr(<<Num(2)>>), Obj(<<Kx>>, <<UserSection>>)>>)

FileLines ==
    { <<"g", "e", "n", "e", "r", "a", "l", ":">>, <<" ", " ", "a", ":", " ", "5">>, <<"f", "o", "o", ":">>, <<"x", ":", " ", "1">>, <<"e", "n", "g", "i", "n", "e", "s", ":", " ", "[", "7", "]">>, <<>>, <<"i", "n", "t", "e", "r", "a", "c", "t", "i", "o", "n", ":">>, <<"#", " ", "n", "o", "t", "e">> }

ImportFiles == {JoinFrom(ls, <<"\n">>, 1) : ls \in SeqsUpTo(FileLines, MaxFileLines)}

InitImport ==
    /\ importText = <<>>
    /\ importParsed = <<>>
    /\ appConfig = UserConfig
    /\ storedConfig = UserConfig
    /\ importToasts = <<>>
    /\ onImportCalls = 0
    /\ importPc = "choosing"
    /\ ScanIdle
    /\ DensityIdle
    /\ GenIdle
    /\ CodecIdle
    /\ PathIdle
    /\ BatchIdle
    /\ DeepIdle
    /\ SpliceIdle
    /\ RulesIdle
    /\ CaptureIdle

\* handleImportFile: a file is chosen and reader.readAsText(file) is started
SelectFile ==
    /\ importPc = "choosing"
    /\ \E text \in ImportFiles :
        /\ importText' = text
        /\ importPc' = "reading"
    /\ UNCHANGED <<importParsed, appConfig, storedConfig, importToasts, onImportCalls>>
    /\ UNCHANGED <<scanVars, densVars, genVars, codecVars, pathVars, batchVars, deepVars, spliceVars, rulesVars, captureVars>>

\* reader.onload up to confirm(): the file is parsed and validated
FileLoaded ==
    /\ importPc = "reading"
    /\ LET value == parseConfigYaml(importText)
       IN  IF HasValidKey(value)
           THEN /\ importParsed' = value
                /\ importPc' = "confirming"
                /\ UNCHANGED importToasts
           ELSE /\ importToasts' = Append(importToasts, "error")
                /\ importPc' = "rejected"
                /\ UNCHANGED importParsed
    /\ UNCHANGED <<importText, appConfig, storedConfig, onImportCalls>>
    /\ UNCHANGED <<scanVars, densVars, genVars, codecVars, pathVars, batchVars, deepVars, spliceVars, rulesVars, captureVars>>

\* the answer to confirm(): await onImport(parsed) and the success notice, or
\* nothing
ConfirmImport ==
    /\ importPc = "confirming"
    /\ \E yes \in BOOLEAN :
        IF yes
        THEN /\ appConfig' = handleConfigImport(importParsed, appConfig)
             /\ storedConfig' = handleConfigImport(importParsed, appConfig)
             /\ onImportCalls' = onImportCalls + 1
             /\ importToasts' = Append(importToasts, "success")
             /\ importPc' = "imported"
        ELSE /\ importPc' = "cancelled"
             /\ UNCHANGED <<appConfig, storedConfig, onImportCalls, importToasts>>
    /\ UNCHANGED <<importText, importParsed>>
    /\ UNCHANGED <<scanVars, densVars, genVars, codecVars, pathVars, batchVars, deepVars, spliceVars, rulesVars, captureVars>>

NextImport == SelectFile \/ FileLoaded \/ ConfirmImport

SpecImport == InitImport /\ [][NextImport]_vars

\* the file's value is no object or has none of the section keys general,
\* styles, scenarios, engines
Malformed(text) ==
    LET value == parseConfigYaml(text)
    IN  \/ value.kind # "obj"
        \/ \A i \in DOMAIN value.keys :
              value.keys[i] \notin {<<"g", "e", "n", "e", "r", "a", "l">>, <<"s", "t", "y", "l", "e", "s">>, <<"s", "c", "e", "n", "a", "r", "i", "o", "s">>, <<"e", "n", "g", "i", "n", "e", "s">>}

\* C19: a file that does not parse to an object, or whose object has no
\* recognized top-level section key, is rejected as a whole: once it is
\* loaded the import has ended with one error notice, onImport was not
\* called, and the configuration state and the stored values are unchanged.
C19_MalformedRejected ==
    (importPc \notin {"choosing", "reading"} /\ Malformed(importText)) =>
        /\ importPc = "rejected"
        /\ importToasts = <<"error">>
        /\ onImportCalls = 0
        /\ appConfig = UserConfig
        /\ storedConfig = UserConfig

\* a file with lines but no recognized section has been rejected, and
\* importing it would have changed the configuration
C19_Witness ==
    /\ importPc = "rejected"
    /\ Len(importText) > 3
    /\ parseConfigYaml(importText).kind = "obj"
    /\ parseConfigYaml(importText).keys # <<>>
    /\ handleConfigImport(parseConfigYaml(importText), appConfig) # UserConfig

(***************************************************************************)
(* Nested lists (the generator, continued)                                 *)
(***************************************************************************)
\* the path string of the first n segments of segs
PrefixPath(segs, n) == JoinFrom(SubSeq(segs, 1, n), <<".">>, 1)

\* the items of marked lists that strictly enclose the item of entry e, as
\* numbers of leading segments of its path
OuterItems(e) ==
    LET segs == Segments(e.item)
    IN  {n \in 1..(Len(segs) - 1) :
            /\ normalizePath(PrefixPath(segs, n)) \in ListPaths
            /\ ValueAt(data, SubSeq(segs, 1, n), 2).kind = "obj"}

\* the candidate a rule m yields for property k of the node at path p
AttributeCandidate(p, node, k, m) ==
    [val |-> node.vals[k], w |-> m.weight, src |-> JoinPath(p, node.keys[k]), base |-> FALSE]

\* C20: an entry finalized from an element of a nested list carries, for
\* every marked-list item that encloses it, the mapped direct attributes of
\* that item (the value, with the rule's weight, among the candidates of the
\* rule's field), and none of its candidates was read inside another item
\* of an enclosing list.
C20_NestedInheritance ==
    genPc = "done" =>
        \A i \in DOMAIN previewResult :
            LET e == previewResult[i]
                segs == Segments(e.item)
            IN  \A n \in OuterItems(e) :
                    LET p == PrefixPath(segs, n)
                        node == ValueAt(data, SubSeq(segs, 1, n), 2)
                    IN  /\ \A k \in DOMAIN node.keys : \A j \in DOMAIN mappings :
                              (~mappings[j].isBase
                               /\ mappings[j].path = normalizePath(JoinPath(p, node.keys[k])))
                              => \E c \in DOMAIN e.collected[mappings[j].field] :
                                    e.collected[mappings[j].field][c]
                                        = AttributeCandidate(p, node, k, mappings[j])
                        /\ \A f \in AllFields : \A c \in DOMAIN e.collected[f] :
                              ~e.collected[f][c].base =>
                                  OwnCandidate(e.collected[f][c].src, e.item)

\* two outer items with two nested elements each were generated with both
\* lists marked and the outer attribute x mapped: four entries, those of the
\* first outer item with x = 1 and those of the second with x = 2
C20_Witness ==
    /\ genPc = "done"
    /\ PathOf(<<Ka, Klist>>) \in ListPaths
    /\ PathOf(<<Ka, Klist, Ksub>>) \in ListPaths
    /\ \E j \in DOMAIN mappings :
          mappings[j].path = PathOf(<<Ka, Klist, Kx>>) /\ ~mappings[j].isBase
    /\ data = DocOf(Arr([i \in 1..2 |-> Item("nested", i)]))
    /\ Len(previewResult) = 4
    /\ \A i \in 1..4 : OuterItems(previewResult[i]) # {}
    /\ \E f \in AllFields :
          /\ \E c \in DOMAIN previewResult[1].collected[f] :
                previewResult[1].collected[f][c].val = Num(1)
          /\ \E c \in DOMAIN previewResult[4].collected[f] :
                previewResult[4].collected[f][c].val = Num(2)

(***************************************************************************)
(* Leaf lists (the generator, continued)                                   *)
(***************************************************************************)
\* the last segment of a path
LastSegment(path) == Segments(path)[Len(Segments(path))]

\* the values of the document that sit at a marked list path with no deeper
\* marker beneath it: <<path, value>>
LeafListNodes ==
    {nd \in NodesUnder(data, RootPath) :
        /\ normalizePath(nd[1]) \in ListPaths
        /\ ~IsIndexSegment(LastSegment(nd[1]))
        /\ Truthy(nd[2])
        /\ ~\E lp \in ListPaths :
              lp # normalizePath(nd[1]) /\ IsPrefix(Segments(normalizePath(nd[1])), Segments(lp))}

\* the concrete paths of the elements of a list value: one per array
\* element, the value's own path for a bare object
ElementsOf(nd) ==
    IF nd[2].kind = "arr"
    THEN {JoinPath(nd[1], DecimalChars(i - 1)) : i \in DOMAIN nd[2].vals}
    ELSE {nd[1]}

\* some rule yields a value that is not null for the element at path item:
\* a base rule anywhere in the document, another rule on a property of a
\* node on the way to the element or inside it
ResolvesSomeField(item) ==
    \E nd \in NodesUnder(data, RootPath) : \E j \in DOMAIN mappings :
        /\ mappings[j].path = normalizePath(nd[1])
        /\ nd[2].kind # "null"
        /\ mappings[j].isBase \/ OwnCandidate(nd[1], item)

\* C21: with list markers, the entries are exactly one entry for each
\* element of each value at a marked list path with no deeper marker (a bare
\* object is one element), except the elements for which no field resolves,
\* which have none.
C21_OnePerLeafItem ==
    (genPc = "done" /\ lists # <<>>) =>
        /\ \A i, k \in DOMAIN previewResult :
              previewResult[i].item = previewResult[k].item => i = k
        /\ {previewResult[i].item : i \in DOMAIN previewResult}
             = {item \in UNION {ElementsOf(nd) : nd \in LeafListNodes} :
                   ResolvesSomeField(item)}

\* a leaf list of two elements, one with an entry and one withheld because
\* its only mapped value is null
C21_Witness ==
    /\ genPc = "done"
    /\ lists # <<>>
    /\ Len(previewResult) = 1
    /\ \E nd \in LeafListNodes :
          /\ Cardinality(ElementsOf(nd)) = 2
          /\ \E item \in ElementsOf(nd) : ~ResolvesSomeField(item)
          /\ \E item \in ElementsOf(nd) : previewResult[1].item = item

(***************************************************************************)
(* Deep documents (the generator, continued).  A document nested deeper    *)
(* than MAX_DEPTH is a chain of objects { a: { a: ... } } with the value   *)
(* of interest at depth startDepth; the objects of the chain hold no       *)
(* mapped property, so the scans arrive at that value with empty contexts  *)
(* and depth = startDepth.                                                 *)
(***************************************************************************)
MaxOver == 3     \* levels below and above MAX_DEPTH at which the value sits

\* root.a.a. ... .a.<keys> with d times a
DeepPath(d, keys) ==
    LET tail == PathOf(keys)
    IN  (RootPath \o [i \in 1..(2 * d) |-> IF i % 2 = 1 THEN "." ELSE Ka[1]]
                  \o SubSeq(tail, Len(RootPath) + 1, Len(tail))) \o <<>>

\* { pos: 7, list: [item, item], a: { list: [item, item] } }
DeepValue ==
    LET items == Arr([i \in 1..2 |-> Item("nested", i)])
    IN  Obj(<<Kpos, Klist, Ka>>, <<Num(7), items, Obj(<<Klist>>, <<items>>)>>)

DeepLevels == (MAX_DEPTH - MaxOver)..(MAX_DEPTH + MaxOver)

DeepMappedKeys == << <<Kpos>>, <<Klist, Kx>>, <<Ka, Klist, Kx>>, <<Klist, Ksub, Kz>> >>

DeepChoices ==
    { [field |-> "fieldX", weight |-> 1, isBase |-> FALSE],
      [field |-> "fieldX", weight |-> 1, isBase |-> TRUE] }

DeepMappingSets(d) ==
    UNION {
      { [j \in 1..Cardinality(idx) |->
            [path |-> DeepPath(d, Pick(DeepMappedKeys, idx)[j][2]),
             field |-> ch[Pick(DeepMappedKeys, idx)[j][1]].field,
             weight |-> ch[Pick(DeepMappedKeys, idx)[j][1]].weight,
             isBase |-> ch[Pick(DeepMappedKeys, idx)[j][1]].isBase]]
        : ch \in [idx -> DeepChoices] }
      : idx \in SUBSET DOMAIN DeepMappedKeys }

DeepListKeys == << <<Klist>>, <<Ka, Klist>> >>

DeepListSets(d) ==
    { [j \in 1..Cardinality(idx) |-> DeepPath(d, Pick(DeepListKeys, idx)[j][2])]
      : idx \in SUBSET DOMAIN DeepListKeys }

InitDeep ==
    /\ startDepth \in DeepLevels
    /\ data = DeepValue
    /\ mappings \in DeepMappingSets(startDepth)
    /\ lists \in DeepListSets(startDepth)
    /\ previewResult = <<>>
    /\ genPc = "ready"
    /\ ScanIdle
    /\ DensityIdle
    /\ CodecIdle
    /\ PathIdle
    /\ BatchIdle
    /\ ImportIdle
    /\ SpliceIdle
    /\ RulesIdle
    /\ CaptureIdle

\* runGeneration from the point where its scans reach the value at depth
\* startDepth, to its end
RunGenerationAt ==
    /\ genPc = "ready"
    /\ previewResult' = GenerateFrom(data, DeepPath(startDepth, <<>>), startDepth)
    /\ genPc' = "done"
    /\ UNCHANGED <<mappings, lists, data>>
    /\ UNCHANGED <<scanVars, densVars, codecVars, pathVars, batchVars, importVars, deepVars, spliceVars, rulesVars, captureVars>>

\* a step that takes the generation to its end
EndsRun == genPc = "ready" /\ genPc' = "done"

\* the scans run to their end once started: nothing in them waits
SpecDeep == InitDeep /\ [][RunGenerationAt]_vars /\ WF_genPc(EndsRun)

\* a rule that is no base rule maps the property at keys below the value
MapsOwn(keys) ==
    \E j \in DOMAIN mappings :
        mappings[j].path = DeepPath(startDepth, keys) /\ ~mappings[j].isBase

\* the entries finalized for the elements of the list at keys
EntriesUnder(keys, i) ==
    {k \in DOMAIN previewResult :
        previewResult[k].item = DeepPath(startDepth, Append(keys, DecimalChars(i - 1)))}

C28_Bounded ==
    genPc = "done" =>
        /\ startDepth > MAX_DEPTH => previewResult = <<>>
        /\ \A n \in DOMAIN DeepListKeys :
              LET keys == DeepListKeys[n]
                  depth == startDepth + Len(keys)
              IN  DeepPath(startDepth, keys) \in ListPaths =>
                     /\ depth > MAX_DEPTH => \A i \in 1..2 : EntriesUnder(keys, i) = {}
                     /\ (depth <= MAX_DEPTH /\ MapsOwn(Append(keys, Kx)))
                           => \A i \in 1..2 : Cardinality(EntriesUnder(keys, i)) = 1
        /\ (lists = <<>> /\ startDepth <= MAX_DEPTH /\ MapsOwn(<<Kpos>>))
              => Len(previewResult) = 1

MaxText == 5
MaxNodes == 3

\* the characters of the block: every offset has a character of its own
BlockChars == <<"a", "b", "c", "d", "e", "f", "g">>

\* no candidate has been spliced yet (lastEntry = null)
NoEntry == 0

\* Number.MAX_VALUE: above every offset of a string
MAX_VALUE == 2 ^ 30

RECURSIVE BuildNodeMap(_, _, _)
\* textNodes.forEach(n => nodeMap.push({node, start: fullText.length, end: ...}))
BuildNodeMap(nodes, i, len) ==
    IF i > Len(nodes) THEN <<>>
    ELSE <<[node |-> i, start |-> len, end |-> len + Len(nodes[i])]>>
         \o BuildNodeMap(nodes, i + 1, len + Len(nodes[i]))

RECURSIVE FullTextOf(_)
FullTextOf(nodes) ==
    IF nodes = <<>> THEN <<>> ELSE Head(nodes) \o FullTextOf(Tail(nodes))

\* the children of the block before the splice
TextItem(i, val) == [kind |-> "text", node |-> i, value |-> val, start |-> 0, end |-> 0]

SpanItem(r, mid) == [kind |-> "span", node |-> r.entry, value |-> mid, start |-> r.start, end |-> r.end]

SpaceItem == [kind |-> "space", node |-> 0, value |-> <<" ">>, start |-> 0, end |-> 0]

BlockOf(nodes) == [i \in DOMAIN nodes |-> TextItem(i, nodes[i])]

\* nodeMap.find(n => r.start >= n.start && r.end <= n.end): 0 when none
FindTarget(nm, r) ==
    LET hits == {i \in DOMAIN nm : r.start >= nm[i].start /\ r.end <= nm[i].end}
    IN  IF hits = {} THEN 0 ELSE CHOOSE i \in hits : \A j \in hits : i <= j

\* the place of a text node of nodeMap among the children
PlaceOfNode(d, i) == CHOOSE k \in DOMAIN d : d[k].kind = "text" /\ d[k].node = i

\* val.substring(a, b) for 0 <= a <= b <= val.length
Substring(val, a, b) == SubSeq(val, a + 1, b)

\* a space after every unit but the rightmost
AddSpaceAfterAny(st, r) == st.lastEntry # NoEntry

\* let addSpace = false; if (lastEntry && r.end === lastStart) addSpace = true
AddSpace(st, r) == st.lastEntry # NoEntry /\ r.end = st.lastStart

\* the body of if (target): split the text node, insert the remainder, the
\* space and the unit after it, keep the text before in the node
SpliceAt(st, r, nm, t) ==
    IF t = 0 THEN st
    ELSE LET k == PlaceOfNode(st.dom, t)
             val == st.dom[k].value
             localStart == r.start - nm[t].start
             localEnd == r.end - nm[t].start
         IN  IF localStart >= 0 /\ localEnd <= Len(val)
             THEN LET mid == Substring(val, localStart, localEnd)
                      after == Substring(val, localEnd, Len(val))
                      before == Substring(val, 0, localStart)
                  IN  [dom |-> SubSeq(st.dom, 1, k - 1)
                               \o <<TextItem(t, before)>>
                               \o <<SpanItem(r, mid)>>
                               \o (IF AddSpace(st, r) THEN <<SpaceItem>> ELSE <<>>)
                               \o (IF after # <<>> THEN <<TextItem(0, after)>> ELSE <<>>)
                               \o SubSeq(st.dom, k + 1, Len(st.dom)),
                       lastStart |-> r.start,
                       lastEntry |-> r.entry]
             ELSE st

\* a loop that stops at the first candidate without a target
SpliceStepAbort(st, r, nm) ==
    IF r.end <= st.lastStart
    THEN IF FindTarget(nm, r) = 0 THEN [st EXCEPT !.lastStart = -1]
         ELSE SpliceAt(st, r, nm, FindTarget(nm, r))
    ELSE st

\* one turn of nonOverlappingReplacements.forEach(r => ...)
SpliceStep(st, r, nm) ==
    IF r.end <= st.lastStart THEN SpliceAt(st, r, nm, FindTarget(nm, r)) ELSE st

RECURSIVE SpliceFrom(_, _, _, _)
SpliceFrom(st, rs, i, nm) ==
    IF i > Len(rs) THEN st ELSE SpliceFrom(SpliceStep(st, rs[i], nm), rs, i + 1, nm)

\* the order of the keys of a list sorted by start
KeepOrder(rs) == rs

\* nonOverlappingReplacements.sort((a, b) => b.start - a.start): the kept
\* candidates have different starts, so the order is the reverse of theirs
SortDescending(rs) == [i \in DOMAIN rs |-> rs[Len(rs) + 1 - i]]

\* step 3 from the sort on, for the text nodes and the kept candidates
SpliceAll(nodes, rs) ==
    SpliceFrom([dom |-> BlockOf(nodes), lastStart |-> MAX_VALUE, lastEntry |-> NoEntry],
               SortDescending(rs), 1, BuildNodeMap(nodes, 1, 0)).dom

\* ---- inputs: the text nodes of a block and the candidates kept for it
RECURSIVE SplitsOf(_, _)
\* the ways to cut a text into at most n text nodes (empty ones included)
SplitsOf(text, n) ==
    IF n = 1 THEN {<<text>>}
    ELSE {<<text>>} \cup
         UNION {{<<SubSeq(text, 1, c)>> \o rest : rest \in SplitsOf(SubSeq(text, c + 1, Len(text)), n - 1)}
                : c \in 0..Len(text)}

RECURSIVE KeptFrom(_, _, _)
\* the outputs of the overlap removal: start < end, r.start >= occupiedEnd
KeptFrom(from, len, id) ==
    {<<>>} \cup
    UNION {{<<[start |-> s, end |-> e, entry |-> id]>> \o rest : rest \in KeptFrom(e, len, id + 1)}
           : <<s, e>> \in {p \in (from..len) \X (from..len) : p[1] < p[2]}}

InitSplice ==
    /\ \E len \in 1..MaxText :
          /\ textNodes \in SplitsOf(SubSeq(BlockChars, 1, len), MaxNodes)
          /\ keptReplacements \in KeptFrom(0, len, 1)
    /\ blockDom = BlockOf(textNodes)
    /\ splicePc = "kept"
    /\ DensityIdle /\ ScanIdle /\ GenIdle /\ CodecIdle /\ PathIdle /\ BatchIdle
    /\ ImportIdle /\ DeepIdle
    /\ RulesIdle
    /\ CaptureIdle

\* step 3 of applySentenceScopedReplacements; nothing is awaited in it
ApplySplice ==
    /\ splicePc = "kept"
    /\ blockDom' = SpliceAll(textNodes, keptReplacements)
    /\ splicePc' = "spliced"
    /\ UNCHANGED <<textNodes, keptReplacements>>
    /\ UNCHANGED <<densVars, scanVars, genVars, codecVars, pathVars, batchVars, importVars, deepVars, rulesVars, captureVars>>

SpecSplice == InitSplice /\ [][ApplySplice]_vars

\* ---- what the splice leaves behind
Spans == {k \in DOMAIN blockDom : blockDom[k].kind = "span"}

SplicedEntries == {blockDom[k].node : k \in Spans}

InOneNode(r) == FindTarget(BuildNodeMap(textNodes, 1, 0), r) # 0

RECURSIVE TextOf(_)
\* the characters of the children other than the inserted spaces
TextOf(d) ==
    IF d = <<>> THEN <<>>
    ELSE (IF Head(d).kind = "space" THEN <<>> ELSE Head(d).value) \o TextOf(Tail(d))

\* C22: every spliced candidate took out of its text node the original
\* block text at [start, end), the text of the block is otherwise unchanged
\* and in order, and every kept candidate lying in one text node is spliced,
\* whatever was spliced to its right before
C22_OffsetsStayValid ==
    splicePc = "spliced" =>
        /\ \A k \in Spans :
              blockDom[k].value = SubSeq(FullTextOf(textNodes), blockDom[k].start + 1, blockDom[k].end)
        /\ TextOf(blockDom) = FullTextOf(textNodes)
        /\ \A i \in DOMAIN keptReplacements :
              InOneNode(keptReplacements[i]) => keptReplacements[i].entry \in SplicedEntries

\* two candidates were spliced into one text node
C22_Witness ==
    /\ splicePc = "spliced"
    /\ Len(textNodes) = 2 /\ Len(textNodes[2]) >= 4
    /\ \E k1, k2 \in Spans :
          /\ k1 < k2
          /\ blockDom[k1].start > Len(textNodes[1])
          /\ blockDom[k2].start > blockDom[k1].end

\* C23: a space follows a replacement unit exactly when a spliced candidate
\* starts where the candidate of the unit ends, and there is no other space
C23_SpaceIffAdjacent ==
    splicePc = "spliced" =>
        /\ \A k \in Spans :
              (k < Len(blockDom) /\ blockDom[k + 1].kind = "space")
                  <=> (\E j \in Spans : blockDom[j].start = blockDom[k].end)
        /\ \A k \in DOMAIN blockDom :
              blockDom[k].kind = "space" => k > 1 /\ (k - 1) \in Spans

\* one unit is followed by a space; another one ends where a dropped
\* candidate starts and is followed by none
C23_Witness ==
    /\ splicePc = "spliced"
    /\ \E k \in Spans : k < Len(blockDom) /\ blockDom[k + 1].kind = "space"
    /\ \E k \in Spans, i \in DOMAIN keptReplacements :
          /\ ~InOneNode(keptReplacements[i])
          /\ keptReplacements[i].start = blockDom[k].end
          /\ k < Len(blockDom) /\ blockDom[k + 1].kind # "space"

\* the kept candidates that lie in one text node
Contained(rs) ==
    LET keep == {i \in DOMAIN rs : InOneNode(rs[i])}
        F[i \in 0..Len(rs)] ==
            IF i = 0 THEN <<>>
            ELSE IF i \in keep THEN Append(F[i - 1], rs[i]) ELSE F[i - 1]
    IN  F[Len(rs)]

\* C24: the children of the block after the splice are those the splice of
\* the candidates lying in one text node alone leaves: a candidate in no
\* single text node changes nothing, and the others are all spliced
C24_NotFoundDropped ==
    splicePc = "spliced" =>
        /\ blockDom = SpliceAll(textNodes, Contained(keptReplacements))
        /\ SplicedEntries = {r.entry : r \in Range(Contained(keptReplacements))}

\* a dropped candidate between two spliced ones
C24_Witness ==
    /\ splicePc = "spliced"
    /\ \E i, j, k \in DOMAIN keptReplacements :
          /\ i < j /\ j < k
          /\ ~InOneNode(keptReplacements[j])
          /\ keptReplacements[i].entry \in SplicedEntries
          /\ keptReplacements[k].entry \in SplicedEntries

(***************************************************************************)
(* The rule editor: mappings and lists are React state; a handler, the     *)
(* render after it and the effects of that render make one step.  The load *)
(* effect runs when apiUrl changes, the save effect when mappings, lists   *)
(* or apiUrl change (a handler that sets mappings or lists always sets a   *)
(* new array).                                                             *)
(***************************************************************************)
HISTORY_LIMIT == 50
MaxRuleSteps == 3
MaxSaves == 1

\* two URL templates; the editor opens on the first
UrlA == "A"

UrlB == "B"

Urls == {UrlA, UrlB}

\* the node the user clicks in the tree (an element of a list), the field
\* picked for it and the weight typed
ClickedPath == PathOf(<<Klist>>) \o <<".", "0">>

FieldInputs == {"", "fieldX"}

WeightInputs == {2}

HistoryStep(m, l) == [mappings |-> m, lists |-> l]

\* the rule set of a URL template in the stored blob
NoRuleSet == <<>>

RuleSet(m, l) == <<[mappings |-> m, lists |-> l]>>

\* saveHistory(m, l, shouldPush), for the history and historyIndex of the render
saveHistory(h, idx, m, l, shouldPush) ==
    IF ~shouldPush THEN [history |-> <<HistoryStep(m, l)>>, historyIndex |-> 0]
    ELSE LET pushed == Append(SubSeq(h, 1, idx + 1), HistoryStep(m, l))
             newHistory == IF Len(pushed) > HISTORY_LIMIT THEN Tail(pushed) ELSE pushed
         IN  [history |-> newHistory, historyIndex |-> Len(newHistory) - 1]

\* the save effect of the render with these values: the cleanup clears the
\* timer, then a timer is set unless apiUrl is empty or historyIndex is -1
SaveEffect(url, idx, m, l) ==
    IF url = "" \/ idx = -1 THEN <<>>
    ELSE <<[apiUrl |-> url, mappings |-> m, lists |-> l]>>

\* a handler that ends in setMappings / setLists and saveHistory(m, l)
Edited(m, l) ==
    LET h == saveHistory(history, historyIndex, m, l, TRUE)
    IN  /\ ruleSteps < MaxRuleSteps
        /\ mappings' = m
        /\ lists' = l
        /\ history' = h.history
        /\ historyIndex' = h.historyIndex
        /\ saveTimer' = SaveEffect(apiUrl, h.historyIndex, m, l)
        /\ lastEdited' = [lastEdited EXCEPT ![apiUrl] = RuleSet(m, l)]
        /\ ruleSteps' = ruleSteps + 1
        /\ UNCHANGED <<apiUrl, ruleStore, loads, saves>>
        /\ UNCHANGED <<data, previewResult, genPc>>
        /\ UNCHANGED <<scanVars, densVars, codecVars, pathVars, batchVars, importVars, deepVars, spliceVars, captureVars>>

\* mappings.filter(m => m.path !== nPath)
WithoutPath(ms, nPath) == SelectSeq(ms, LAMBDA m : m.path # nPath)

setMapping(path, field) ==
    LET nPath == normalizePath(path)
        newMappings ==
            IF field = "" THEN WithoutPath(mappings, nPath)
            ELSE IF \E i \in DOMAIN mappings : mappings[i].path = nPath
                 THEN [i \in DOMAIN mappings |->
                          IF mappings[i].path = nPath
                          THEN [mappings[i] EXCEPT !.field = field] ELSE mappings[i]]
                 ELSE Append(mappings, [path |-> nPath, field |-> field, weight |-> 1, isBase |-> FALSE])
    IN  Edited(newMappings, lists)

toggleList(path) ==
    LET nPath == normalizePath(path)
        newLists == IF nPath \in Range(lists)
                    THEN SelectSeq(lists, LAMBDA lp : lp # nPath)
                    ELSE Append(lists, nPath)
    IN  Edited(mappings, newLists)

toggleBaseInfo(path) ==
    LET nPath == normalizePath(path)
    IN  Edited([i \in DOMAIN mappings |->
                   IF mappings[i].path = nPath
                   THEN [mappings[i] EXCEPT !.isBase = ~mappings[i].isBase] ELSE mappings[i]],
               lists)

setWeight(path, weight) ==
    LET nPath == normalizePath(path)
    IN  Edited([i \in DOMAIN mappings |->
                   IF mappings[i].path = nPath
                   THEN [mappings[i] EXCEPT !.weight = weight] ELSE mappings[i]],
               lists)

clearAll == Edited(<<>>, <<>>)

\* undo / redo: setMappings, setLists and setHistoryIndex to the step at place
\* k (from 0)
MoveTo(k) ==
    /\ ruleSteps < MaxRuleSteps
    /\ mappings' = history[k + 1].mappings
    /\ lists' = history[k + 1].lists
    /\ historyIndex' = k
    /\ saveTimer' = SaveEffect(apiUrl, k, mappings', lists')
    /\ lastEdited' = [lastEdited EXCEPT ![apiUrl] = RuleSet(mappings', lists')]
    /\ ruleSteps' = ruleSteps + 1
    /\ UNCHANGED <<apiUrl, history, ruleStore, loads, saves>>
    /\ UNCHANGED <<data, previewResult, genPc>>
    /\ UNCHANGED <<scanVars, densVars, codecVars, pathVars, batchVars, importVars, deepVars, spliceVars, captureVars>>

undo == historyIndex > 0 /\ MoveTo(historyIndex - 1)

redo == historyIndex < Len(history) - 1 /\ MoveTo(historyIndex + 1)

\* the rule files the user picks: each of apiUrl, mappings, lists is there
\* or not (an empty array is there)
ImportedMappings == <<[path |-> PathOf(<<Klist>>), field |-> "fieldY", weight |-> 1, isBase |-> FALSE]>>

RuleFiles ==
    [apiUrl : {"", UrlB},
     mappings : {<<>>, <<ImportedMappings>>},
     lists : {<<>>, <<(<<>>)>>}]

\* handleImportRules (reader.onload): the three setters, no saveHistory; a
\* changed apiUrl starts a load
handleImportRules(config) ==
    /\ apiUrl # ""
    /\ ruleSteps < MaxRuleSteps
    /\ apiUrl' = IF config.apiUrl # "" THEN config.apiUrl ELSE apiUrl
    /\ mappings' = IF config.mappings # <<>> THEN config.mappings[1] ELSE mappings
    /\ lists' = IF config.lists # <<>> THEN config.lists[1] ELSE lists
    /\ loads' = IF apiUrl' # apiUrl THEN loads \cup {apiUrl'} ELSE loads
    /\ saveTimer' = IF apiUrl' # apiUrl \/ config.mappings # <<>> \/ config.lists # <<>>
                    THEN SaveEffect(apiUrl', historyIndex, mappings', lists')
                    ELSE saveTimer
    /\ lastEdited' = IF apiUrl' = apiUrl
                     THEN [lastEdited EXCEPT ![apiUrl] = RuleSet(mappings', lists')]
                     ELSE lastEdited
    /\ ruleSteps' = ruleSteps + 1
    /\ UNCHANGED <<history, historyIndex, ruleStore, saves>>
    /\ UNCHANGED <<data, previewResult, genPc>>
    /\ UNCHANGED <<scanVars, densVars, codecVars, pathVars, batchVars, importVars, deepVars, spliceVars, captureVars>>

\* the user replaces the URL template: the load effect calls
\* loadRulesForApi, the save effect sets the timer anew
setApiUrl(url) ==
    /\ apiUrl # "" /\ url # apiUrl
    /\ ruleSteps < MaxRuleSteps
    /\ apiUrl' = url
    /\ loads' = loads \cup {url}
    /\ saveTimer' = SaveEffect(url, historyIndex, mappings, lists)
    /\ ruleSteps' = ruleSteps + 1
    /\ UNCHANGED <<mappings, lists, history, historyIndex, ruleStore, saves, lastEdited>>
    /\ UNCHANGED <<data, previewResult, genPc>>
    /\ UNCHANGED <<scanVars, densVars, codecVars, pathVars, batchVars, importVars, deepVars, spliceVars, captureVars>>

\* loadRulesForApi(url) after its await: the rule set stored for url (or
\* nothing) becomes the state and the only history step
LoadReturns(url) ==
    /\ url \in loads
    /\ loads' = loads \ {url}
    /\ LET rule == ruleStore[url]
           m == IF rule # NoRuleSet THEN rule[1].mappings ELSE <<>>
           l == IF rule # NoRuleSet THEN rule[1].lists ELSE <<>>
           h == saveHistory(history, historyIndex, m, l, FALSE)
       IN  /\ mappings' = m
           /\ lists' = l
           /\ history' = h.history
           /\ historyIndex' = h.historyIndex
           /\ saveTimer' = SaveEffect(apiUrl, h.historyIndex, m, l)
    /\ UNCHANGED <<apiUrl, ruleStore, saves, lastEdited, ruleSteps>>
    /\ UNCHANGED <<data, previewResult, genPc>>
    /\ UNCHANGED <<scanVars, densVars, codecVars, pathVars, batchVars, importVars, deepVars, spliceVars, captureVars>>

\* the timer of the save effect fires: the callback calls getItem
TimerFires ==
    /\ saveTimer # <<>>
    /\ Cardinality(saves) < MaxSaves
    /\ saves' = saves \cup {[closure |-> saveTimer[1], allRules |-> <<>>]}
    /\ saveTimer' = <<>>
    /\ UNCHANGED <<apiUrl, mappings, lists, history, historyIndex, ruleStore, loads, lastEdited, ruleSteps>>
    /\ UNCHANGED <<data, previewResult, genPc>>
    /\ UNCHANGED <<scanVars, densVars, codecVars, pathVars, batchVars, importVars, deepVars, spliceVars, captureVars>>

\* getItem returns to the save callback: allRules[apiUrl] = {...}, setItem
SaveGot(s) ==
    /\ s \in saves /\ s.allRules = <<>>
    /\ saves' = (saves \ {s}) \cup
                {[s EXCEPT !.allRules =
                    <<[ruleStore EXCEPT ![s.closure.apiUrl] =
                          RuleSet(s.closure.mappings, s.closure.lists)]>>]}
    /\ UNCHANGED <<apiUrl, mappings, lists, history, historyIndex, ruleStore, saveTimer, loads, lastEdited, ruleSteps>>
    /\ UNCHANGED <<data, previewResult, genPc>>
    /\ UNCHANGED <<scanVars, densVars, codecVars, pathVars, batchVars, importVars, deepVars, spliceVars, captureVars>>

\* setItem(RULES_STORAGE_KEY, allRules) takes effect
SaveSet(s) ==
    /\ s \in saves /\ s.allRules # <<>>
    /\ ruleStore' = s.allRules[1]
    /\ saves' = saves \ {s}
    /\ UNCHANGED <<apiUrl, mappings, lists, history, historyIndex, saveTimer, loads, lastEdited, ruleSteps>>
    /\ UNCHANGED <<data, previewResult, genPc>>
    /\ UNCHANGED <<scanVars, densVars, codecVars, pathVars, batchVars, importVars, deepVars, spliceVars, captureVars>>

\* a history filled to its limit by marking and unmarking one list
FullHistory ==
    [i \in 1..HISTORY_LIMIT |->
        HistoryStep(<<>>, IF i % 2 = 1 THEN <<>> ELSE <<normalizePath(ClickedPath)>>)]

\* the editor has been opened on the first template and its load effect has
\* run; nothing is stored yet.  Or the user has since filled the history
InitRules ==
    /\ apiUrl = UrlA
    /\ mappings = <<>>
    /\ ruleStore = [u \in Urls |-> NoRuleSet]
    /\ saves = {}
    /\ ruleSteps = 0
    /\ \/ /\ lists = <<>>
          /\ history = <<>>
          /\ historyIndex = -1
          /\ saveTimer = <<>>
          /\ loads = {UrlA}
          /\ lastEdited = [u \in Urls |-> NoRuleSet]
       \/ /\ lists = FullHistory[HISTORY_LIMIT].lists
          /\ history = FullHistory
          /\ historyIndex = HISTORY_LIMIT - 1
          /\ saveTimer = SaveEffect(UrlA, historyIndex, mappings, lists)
          /\ loads = {}
          /\ lastEdited = [u \in Urls |-> IF u = UrlA THEN RuleSet(mappings, lists) ELSE NoRuleSet]
    /\ data = <<>> /\ previewResult = <<>> /\ genPc = "idle"
    /\ ScanIdle /\ DensityIdle /\ CodecIdle /\ PathIdle /\ BatchIdle
    /\ ImportIdle /\ DeepIdle /\ SpliceIdle /\ CaptureIdle

NextRules ==
    \/ \E f \in FieldInputs : setMapping(ClickedPath, f)
    \/ toggleList(ClickedPath)
    \/ toggleBaseInfo(ClickedPath)
    \/ \E w \in WeightInputs : setWeight(ClickedPath, w)
    \/ clearAll
    \/ undo
    \/ redo
    \/ \E config \in RuleFiles : handleImportRules(config)
    \/ \E u \in Urls : setApiUrl(u)
    \/ \E u \in Urls : LoadReturns(u)
    \/ TimerFires
    \/ \E s \in saves : SaveGot(s)
    \/ \E s \in saves : SaveSet(s)

SpecRules == InitRules /\ [][NextRules]_vars

\* nothing of the load and save machinery is pending
RulesQuiescent == saveTimer = <<>> /\ loads = {} /\ saves = {}

\* C26: once the timer, the loads and the saves have run out, the rule set
\* stored under a URL template is the one the user last left while that
\* template was active
C26_RulesPerTemplate ==
    RulesQuiescent =>
        \A u \in Urls : lastEdited[u] # NoRuleSet => ruleStore[u] = lastEdited[u]

\* C30: the history holds at most 50 steps, historyIndex is a place of it
\* once set, and the step there is the current mappings and lists
C30_HistoryConsistent ==
    historyIndex # -1 =>
        /\ Len(history) <= HISTORY_LIMIT
        /\ historyIndex \in 0..(Len(history) - 1)
        /\ history[historyIndex + 1] = HistoryStep(mappings, lists)

(***************************************************************************)
(* Batch quick-add in the page UI: onBatchAddToLearning starts one         *)
(* handleCaptureAndAdd per id; each call reads the stored list, changes    *)
(* one entry and writes the whole list back.                               *)
(***************************************************************************)
MaxEntries == 3

EntryIds == 1..MaxEntries

\* a category an entry has before it is added to learning
StartCategories == {"WantToLearnWord", "KnownWord"}

\* allEntries.map(e => e.id === id ? {...e, category: LearningWord} : e)
WithLearning(allEntries, id) == [allEntries EXCEPT ![id] = "LearningWord"]

InitCapture ==
    /\ storedEntries \in [EntryIds -> StartCategories]
    /\ uiEntries = storedEntries
    /\ batchIds = {}
    /\ captures = <<>>
    /\ ScanIdle /\ DensityIdle /\ GenIdle /\ CodecIdle /\ PathIdle /\ BatchIdle
    /\ ImportIdle /\ DeepIdle /\ SpliceIdle /\ RulesIdle

\* onBatchAddToLearning(ids): ids.forEach(id => handleCaptureAndAdd(id));
\* every call runs up to its await entriesStorage.getValue()
onBatchAddToLearning(ids) ==
    /\ batchIds = {} /\ ids # {}
    /\ batchIds' = ids
    /\ captures' = [id \in ids |-> [pc |-> "get", newEntries |-> <<>>]]
    /\ UNCHANGED <<storedEntries, uiEntries>>
    /\ UNCHANGED <<scanVars, densVars, genVars, codecVars, pathVars, batchVars, importVars, deepVars, spliceVars, rulesVars>>

\* getValue returns to the call for id: the entry is found, newEntries is
\* built from the list read and setValue is called
CaptureGot(id) ==
    /\ id \in DOMAIN captures /\ captures[id].pc = "get"
    /\ captures' = [captures EXCEPT ![id] = [pc |-> "set", newEntries |-> WithLearning(storedEntries, id)]]
    /\ UNCHANGED <<storedEntries, uiEntries, batchIds>>
    /\ UNCHANGED <<scanVars, densVars, genVars, codecVars, pathVars, batchVars, importVars, deepVars, spliceVars, rulesVars>>

\* setValue(newEntries) takes effect and returns: setEntries(newEntries)
CaptureSet(id) ==
    /\ id \in DOMAIN captures /\ captures[id].pc = "set"
    /\ storedEntries' = captures[id].newEntries
    /\ uiEntries' = captures[id].newEntries
    /\ captures' = [captures EXCEPT ![id] = [pc |-> "done", newEntries |-> <<>>]]
    /\ UNCHANGED batchIds
    /\ UNCHANGED <<scanVars, densVars, genVars, codecVars, pathVars, batchVars, importVars, deepVars, spliceVars, rulesVars>>

NextCapture ==
    \/ \E ids \in SUBSET EntryIds : onBatchAddToLearning(ids)
    \/ \E id \in EntryIds : CaptureGot(id)
    \/ \E id \in EntryIds : CaptureSet(id)

SpecCapture == InitCapture /\ [][NextCapture]_vars

\* every call of the batch has returned
BatchAdded == batchIds # {} /\ \A id \in batchIds : captures[id].pc = "done"

\* C29: after all calls of a batch have returned, every entry of the batch
\* has category Learning in storage
C29_NoLostUpdate ==
    BatchAdded => \A id \in batchIds : storedEntries[id] = "LearningWord"

====
